---- MODULE Spec2Model ----
(***************************************************************************)
(* Model of the NuGet package README MCP server: the in-memory cache       *)
(* (MemoryCache), the retry executor (withRetry) and the three tool        *)
(* functions that sit in front of the NuGet and GitHub API clients.        *)
(*                                                                         *)
(* Three specifications share the variables:                               *)
(*   SpecCache  one MemoryCache driven by set/get/has/delete/clear/sweep   *)
(*   SpecRetry  one withRetry call driven by the outcomes of fn            *)
(*   Spec       the tool functions over the global cache and the clients   *)
(***************************************************************************)
EXTENDS Integers, Sequences, FiniteSets, TLC

VARIABLES
  cache,    \* MemoryCache.cache: the Map, as the sequence of its entries in insertion order
  now,      \* Date.now()
  lastOp,   \* the last step, when a set or a get: its name, its key and what it returned
  shadow,   \* per key: what the last set stored and when; the reads since: 0, 1, 2 (more than one)
  rt,       \* the withRetry call in progress: loop position, attempt, lastError, outcome
  reqs,     \* the tool calls in progress: position in the tool function and its locals
  calls,    \* the calls made to the NuGet and GitHub capabilities, in order
  cleanupInterval,  \* MemoryCache.cleanupInterval: the timer of the sweep, "set" or "cleared"
  defaultTtl        \* MemoryCache.defaultTtl: options.ttl, as configured

vars == <<cache, now, lastOp, shadow, rt, reqs, calls, cleanupInterval, defaultTtl>>

(***************************************************************************)
(* Values                                                                  *)
(***************************************************************************)

\* null / undefined
Null == [null |-> TRUE]

\* A string is held as the sequence of its pieces, each piece a run of
\* characters: <<"Hello", " ", "World">>.  A piece of line breaks holds
\* nothing but "\n" characters; no other piece holds a character that
\* JSON.stringify escapes.
LineBreaks == {"\n", "\n\n"}

RECURSIVE Length(_)
\* s.length
Length(s) == IF s = <<>> THEN 0 ELSE Len(Head(s)) + Length(Tail(s))

RECURSIVE JsonChars(_)
\* Length of the JSON text of the characters of s: "\n" is written as \n.
JsonChars(s) ==
  IF s = <<>> THEN 0
  ELSE (IF Head(s) \in LineBreaks THEN 2 * Len(Head(s)) ELSE Len(Head(s)))
       + JsonChars(Tail(s))

\* JSON.stringify(s).length for a string s.
JsonTextLength(s) == JsonChars(s) + 2

RECURSIVE SeqSum(_)
SeqSum(s) == IF s = <<>> THEN 0 ELSE Head(s) + SeqSum(Tail(s))

\* undefined (or null) where a string is expected.  No string holds this piece.
Undefined == <<"<undefined>">>

\* The members of the stored objects that are not strings.
BooleanMembers == {"exists", "verified"}
NumberMembers == {"total_count", "totalDownloads"}
StringListMembers == {"authors", "packageTypes"}
ObjectListMembers == {"packages", "usage_examples"}

\* The members JSON.stringify writes: those that are not undefined.
Present(r) ==
  {f \in DOMAIN r :
     \/ f \in BooleanMembers \cup NumberMembers \cup StringListMembers \cup ObjectListMembers
     \/ r[f] # Undefined}

RECURSIVE JsonLength(_)
RECURSIVE JsonMembers(_, _)

\* Length of the JSON text of the member f, of value v.
JsonMember(f, v) ==
  IF f \in BooleanMembers THEN (IF v THEN 4 ELSE 5)
  ELSE IF f \in NumberMembers THEN Len(ToString(v))
  ELSE IF f \in StringListMembers
  THEN 2 + SeqSum([i \in 1..Len(v) |-> JsonTextLength(v[i])])
         + (IF Len(v) > 1 THEN Len(v) - 1 ELSE 0)
  ELSE IF f \in ObjectListMembers
  THEN 2 + SeqSum([i \in 1..Len(v) |-> JsonLength(v[i])])
         + (IF Len(v) > 1 THEN Len(v) - 1 ELSE 0)
  ELSE JsonTextLength(v)

\* Length of the "name":value members of the object r, for the member names
\* in fs, with the commas between them.
JsonMembers(r, fs) ==
  IF fs = {} THEN 0
  ELSE LET f == CHOOSE x \in fs : TRUE
       IN  Len(f) + 3 + JsonMember(f, r[f]) + (IF fs = {f} THEN 0 ELSE 1)
             + JsonMembers(r, fs \ {f})

\* JSON.stringify(data).length for an object.
JsonLength(data) == 2 + JsonMembers(data, Present(data))

(***************************************************************************)
(* MemoryCache                                                             *)
(***************************************************************************)

\* Size budget and default TTL of the cache under test (CacheOptions).
MaxSize == 100
DefaultTtl == 2

\* Map.has / position of key in the Map's iteration order (0: absent).
IndexOf(c, key) ==
  IF \E i \in 1..Len(c) : c[i].key = key
  THEN CHOOSE i \in 1..Len(c) : c[i].key = key
  ELSE 0

\* Map.delete
MapDelete(c, key) == SelectSeq(c, LAMBDA e : e.key # key)

\* Variant of MapSet: an entry that replaces one keeps the old timestamp.
MapSetKeepsTimestamp(c, entry) ==
  LET i == IndexOf(c, entry.key)
  IN  IF i = 0 THEN Append(c, entry)
      ELSE [c EXCEPT ![i] = [entry EXCEPT !.timestamp = c[i].timestamp]]

\* Variant of MapSet: an entry already stored under the key is kept.
MapSetKeepsFirst(c, entry) ==
  IF IndexOf(c, entry.key) = 0 THEN Append(c, entry) ELSE c

\* Map.set: an existing key keeps its place in the iteration order.
MapSet(c, entry) ==
  LET i == IndexOf(c, entry.key)
  IN  IF i = 0 THEN Append(c, entry) ELSE [c EXCEPT ![i] = entry]

estimateEntrySize(key, data) ==
  LET keySize == Len(key) * 2
      dataSize == JsonLength(data) * 2
      metadataSize == 24
  IN  keySize + dataSize + metadataSize

estimateMemoryUsage(c) ==
  SeqSum([i \in 1..Len(c) |-> estimateEntrySize(c[i].key, c[i].data)])

wouldExceedMaxSize(c, key, data, maxSize) ==
  estimateMemoryUsage(c) + estimateEntrySize(key, data) > maxSize

\* The key evictLeastRecentlyUsed deletes: the first entry, in iteration
\* order, whose timestamp is the smallest, when that timestamp is older than
\* the current time; Null when no entry is older than the current time.
\* Variant of OldestKey: the entry written or read last is chosen.
NewestKey(c, t) ==
  LET older == {i \in 1..Len(c) : c[i].timestamp < t}
  IN  IF older = {} THEN Null
      ELSE LET i == CHOOSE i \in older :
                      /\ \A j \in older : c[i].timestamp >= c[j].timestamp
                      /\ \A j \in older : c[j].timestamp = c[i].timestamp => i <= j
           IN  [key |-> c[i].key]

OldestKey(c, t) ==
  LET older == {i \in 1..Len(c) : c[i].timestamp < t}
  IN  IF older = {} THEN Null
      ELSE LET i == CHOOSE i \in older :
                      /\ \A j \in older : c[i].timestamp <= c[j].timestamp
                      /\ \A j \in older : c[j].timestamp = c[i].timestamp => i <= j
           IN  [key |-> c[i].key]

evictLeastRecentlyUsed(c, t) ==
  LET oldest == OldestKey(c, t)
  IN  IF oldest = Null THEN c ELSE MapDelete(c, oldest.key)

\* Variant of Expired: an entry already counts as expired when its age equals its ttl.
ExpiredAtTtl(entry, t) == t - entry.timestamp >= entry.ttl

\* An entry is expired when now - timestamp > ttl.
Expired(entry, t) == t - entry.timestamp > entry.ttl

\* Variant of cacheSet: the ttl argument is ignored.
cacheSetDefaultTtl(c, key, value, ttl, t, ttlDefault, maxSize) ==
  LET entry == [key |-> key, data |-> value, timestamp |-> t, ttl |-> ttlDefault]
      room == IF wouldExceedMaxSize(c, key, value, maxSize)
              THEN evictLeastRecentlyUsed(c, t)
              ELSE c
  IN  MapSet(room, entry)

\* MemoryCache.set(key, value, ttl): the Map afterwards.  ttl = 0 stands for
\* an omitted (or zero) ttl argument: `ttl || this.defaultTtl`.
cacheSet(c, key, value, ttl, t, ttlDefault, maxSize) ==
  LET actualTtl == IF ttl = 0 THEN ttlDefault ELSE ttl
      entry == [key |-> key, data |-> value, timestamp |-> t, ttl |-> actualTtl]
      room == IF wouldExceedMaxSize(c, key, value, maxSize)
              THEN evictLeastRecentlyUsed(c, t)
              ELSE c
  IN  MapSet(room, entry)

\* Variant of cacheGet: every lookup is a miss.
cacheGetMiss(c, key, t) == [cache |-> c, ret |-> Null]

\* Variant of cacheGet: a hit leaves the timestamp of the entry as it was.
cacheGetNoRefresh(c, key, t) ==
  LET i == IndexOf(c, key)
  IN  IF i = 0 THEN [cache |-> c, ret |-> Null]
      ELSE IF t - c[i].timestamp > c[i].ttl
           THEN [cache |-> MapDelete(c, key), ret |-> Null]
      ELSE [cache |-> c, ret |-> c[i].data]

\* MemoryCache.get(key): the Map afterwards and the value returned.
cacheGet(c, key, t) ==
  LET i == IndexOf(c, key)
  IN  IF i = 0 THEN [cache |-> c, ret |-> Null]
      ELSE IF Expired(c[i], t) THEN [cache |-> MapDelete(c, key), ret |-> Null]
      ELSE [cache |-> [c EXCEPT ![i].timestamp = t], ret |-> c[i].data]

\* Variant of cacheHas: an entry whose age is its ttl counts as expired.
cacheHasAtTtl(c, key, t) ==
  LET i == IndexOf(c, key)
  IN  IF i = 0 THEN [cache |-> c, ret |-> FALSE]
      ELSE IF t - c[i].timestamp >= c[i].ttl
           THEN [cache |-> MapDelete(c, key), ret |-> FALSE]
      ELSE [cache |-> c, ret |-> TRUE]

\* Variant of cacheHas: a hit refreshes the timestamp of the entry, as a get does.
cacheHasRefresh(c, key, t) ==
  LET i == IndexOf(c, key)
  IN  IF i = 0 THEN [cache |-> c, ret |-> FALSE]
      ELSE IF Expired(c[i], t) THEN [cache |-> MapDelete(c, key), ret |-> FALSE]
      ELSE [cache |-> [c EXCEPT ![i].timestamp = t], ret |-> TRUE]

\* MemoryCache.has(key)
cacheHas(c, key, t) ==
  LET i == IndexOf(c, key)
  IN  IF i = 0 THEN [cache |-> c, ret |-> FALSE]
      ELSE IF Expired(c[i], t) THEN [cache |-> MapDelete(c, key), ret |-> FALSE]
      ELSE [cache |-> c, ret |-> TRUE]

\* MemoryCache.delete(key)
cacheDelete(c, key) == [cache |-> MapDelete(c, key), ret |-> IndexOf(c, key) # 0]

\* Variant of cleanup: the sweep removes nothing.
cleanupNothing(c, t) == c

\* Variant of cleanup: the sweep removes every entry older than the current
\* time, whatever its ttl.
cleanupIgnoresTtl(c, t) == SelectSeq(c, LAMBDA e : ~(e.timestamp < t))

\* MemoryCache.cleanup(): the periodic sweep.
cleanup(c, t) == SelectSeq(c, LAMBDA e : ~Expired(e, t))

(***************************************************************************)
(* SpecCache: one MemoryCache under every sequence of its operations       *)
(***************************************************************************)

\* Bounds of the cache specification.
MaxTime == 3
MaxTtl == 1

Keys == {"k1", "k2"}
Small == [v |-> <<"a">>]
Large == [v |-> <<"bbbbbbbbbb">>]
Values == {Small, Large}
Ttls == 0..MaxTtl

KeysOf(c) == {c[i].key : i \in 1..Len(c)}
EntryOf(c, key) == c[IndexOf(c, key)]

Op(name, key, ret) == [op |-> name, key |-> key, ret |-> ret]
\* lastOp after anything that is neither a set nor a get
NoOp == Op("other", "", Null)

InitCache ==
  /\ cache = <<>>
  /\ cleanupInterval = "set"
  /\ defaultTtl = DefaultTtl
  /\ now = 0
  /\ lastOp = NoOp
  /\ shadow = [k \in Keys |-> Null]

\* cache.set(k, v, ttl).  The shadow of k records the call; the shadow of a
\* key that was evicted to make room is dropped.  lastOp notes the keys the
\* call removed from the Map.
CacheSet(k, v, ttl) ==
  /\ cache' = cacheSet(cache, k, v, ttl, now, defaultTtl, MaxSize)
  /\ shadow' = [j \in Keys |->
       IF j = k
       THEN [data |-> v, arg |-> ttl, setAt |-> now, at |-> now, reads |-> 0]
       ELSE IF j \in KeysOf(cache) \ KeysOf(cache') THEN Null
       ELSE shadow[j]]
  /\ lastOp' = Op("set", k, [evicted |-> KeysOf(cache) \ KeysOf(cache')])
  /\ UNCHANGED <<now, rt, cleanupInterval, defaultTtl, reqs, calls>>

\* cache.get(k).  The shadow notes the read (none, one, more than one) and,
\* on a hit, its time.
CacheGet(k) ==
  LET r == cacheGet(cache, k, now)
      n == IF shadow[k].reads = 0 THEN 1 ELSE 2
  IN  /\ cache' = r.cache
      /\ shadow' = [shadow EXCEPT ![k] =
           IF shadow[k] = Null THEN Null
           ELSE IF r.ret = Null THEN [shadow[k] EXCEPT !.reads = n]
           ELSE [shadow[k] EXCEPT !.reads = n, !.at = now]]
      /\ lastOp' = Op("get", k, r.ret)
      /\ UNCHANGED <<now, rt, cleanupInterval, defaultTtl, reqs, calls>>

\* cache.has(k)
CacheHas(k) ==
  LET r == cacheHas(cache, k, now)
  IN  /\ cache' = r.cache
      /\ lastOp' = NoOp
      /\ UNCHANGED <<now, shadow, rt, cleanupInterval, defaultTtl, reqs, calls>>

\* cache.delete(k)
CacheDelete(k) ==
  LET r == cacheDelete(cache, k)
  IN  /\ cache' = r.cache
      /\ shadow' = [shadow EXCEPT ![k] = Null]
      /\ lastOp' = NoOp
      /\ UNCHANGED <<now, rt, cleanupInterval, defaultTtl, reqs, calls>>

\* cache.clear()
CacheClear ==
  /\ cache' = <<>>
  /\ shadow' = [k \in Keys |-> Null]
  /\ lastOp' = NoOp
  /\ UNCHANGED <<now, rt, cleanupInterval, defaultTtl, reqs, calls>>

\* The setInterval callback of the constructor: this.cleanup()
CleanupTimer ==
  /\ cleanupInterval = "set"
  /\ cache' = cleanup(cache, now)
  /\ lastOp' = NoOp
  /\ UNCHANGED <<now, shadow, rt, cleanupInterval, defaultTtl, reqs, calls>>

\* Time passes.
Tick ==
  /\ now < MaxTime
  /\ now' = now + 1
  /\ lastOp' = NoOp
  /\ UNCHANGED <<cache, shadow, rt, cleanupInterval, defaultTtl, reqs, calls>>

NextCache ==
  \/ \E k \in Keys, v \in Values, ttl \in Ttls : CacheSet(k, v, ttl)
  \/ \E k \in Keys : CacheGet(k)
  \/ \E k \in Keys : CacheHas(k)
  \/ \E k \in Keys : CacheDelete(k)
  \/ CacheClear
  \/ CleanupTimer
  \/ Tick

InitSpecCache == InitCache /\ rt = Null /\ reqs = Null /\ calls = <<>>

SpecCache == InitSpecCache /\ [][NextCache]_vars

(***************************************************************************)
(* Claims about the cache (checked under SpecCache)                        *)
(***************************************************************************)

\* The ttl an entry stored with the argument ttl gets.
EffectiveTtl(arg) == IF arg = 0 THEN DefaultTtl ELSE arg

\* The last operation was get(k), and it was the first read of k since k
\* was set; k was not set again, deleted or evicted in between.
FirstGetSinceSet ==
  /\ lastOp.op = "get"
  /\ shadow[lastOp.key] # Null
  /\ shadow[lastOp.key].reads = 1

\* C2: after every completed set the estimated sizes of the stored entries
\* sum to at most maxSize (every entry of the model is itself <= maxSize).
C2_SizeBoundAfterSet ==
  lastOp.op = "set" => estimateMemoryUsage(cache) <= MaxSize

\* C3 as stated: after set(k, v, ttl) with no intervening read, write, delete
\* or eviction of k, get(k) returns v when the time t since the set satisfies
\* t < ttl and null when t >= ttl.
C3_FreshnessAsStated ==
  FirstGetSinceSet =>
    LET s == shadow[lastOp.key]
    IN  lastOp.ret = IF now - s.setAt < EffectiveTtl(s.arg) THEN s.data ELSE Null

\* C3 amended: after set(k, v, ttl) with no intervening read, write, delete or
\* eviction of k, get(k) returns v when the time t since the set satisfies
\* t <= T and null when t > T, where T is ttl, or the default TTL of the
\* cache when ttl is 0 or omitted.
C3_Freshness ==
  FirstGetSinceSet =>
    LET s == shadow[lastOp.key]
    IN  lastOp.ret = IF now - s.setAt <= EffectiveTtl(s.arg) THEN s.data ELSE Null

\* C3 witness: a first get exactly ttl after the set returned the value.
C3_Witness ==
  /\ FirstGetSinceSet
  /\ now - shadow[lastOp.key].setAt = EffectiveTtl(shadow[lastOp.key].arg)
  /\ lastOp.ret = shadow[lastOp.key].data

\* C4: a get(k) made no later than ttl after the last set or successful get
\* of k returns the value, however long ago k was set, and leaves the entry
\* with the current time as its timestamp.
C4_ReadExtendsFreshness ==
  [][(/\ lastOp'.op = "get"
      /\ shadow[lastOp'.key] # Null
      /\ now - shadow[lastOp'.key].at <= EffectiveTtl(shadow[lastOp'.key].arg))
     => /\ lastOp'.ret = shadow[lastOp'.key].data
        /\ lastOp'.key \in KeysOf(cache')
        /\ EntryOf(cache', lastOp'.key).timestamp = now]_vars

\* C4 witness: a get returned the value more than ttl after the key was set.
C4_Witness ==
  /\ lastOp.op = "get"
  /\ shadow[lastOp.key] # Null
  /\ lastOp.ret = shadow[lastOp.key].data
  /\ now - shadow[lastOp.key].setAt > EffectiveTtl(shadow[lastOp.key].arg)

(***************************************************************************)
(* Errors                                                                  *)
(***************************************************************************)

\* A number that may be undefined or NaN.
Number(n) == [kind |-> "number", n |-> n]
NaN == [kind |-> "NaN"]
NoNumber == [kind |-> "undefined"]

\* A thrown value: its class (for an Error that is not one of the server's,
\* its name), its code ("": none), its statusCode (0: undefined), the
\* retryAfter of its details (a number, NaN or undefined), msg, the marker
\* its message includes ("ENOTFOUND", "ECONNREFUSED", "timeout" or "": none of
\* them), and n, the invocation of fn that threw it (0: not thrown by fn).  wrapped marks
\* the `new Error(String(error))` withRetry makes of a thrown value that is
\* not an Error.
Thrown(cls, code, statusCode, retryAfter) ==
  [cls |-> cls, code |-> code, statusCode |-> statusCode, retryAfter |-> retryAfter,
   msg |-> "", n |-> 0, wrapped |-> FALSE]

PackageNotFoundError == Thrown("PackageNotFoundError", "PACKAGE_NOT_FOUND", 404, NoNumber)
VersionNotFoundError == Thrown("VersionNotFoundError", "VERSION_NOT_FOUND", 404, NoNumber)
RateLimitError(retryAfter) ==
  Thrown("RateLimitError", "RATE_LIMIT_EXCEEDED", 429, retryAfter)
NetworkError == Thrown("NetworkError", "NETWORK_ERROR", 0, NoNumber)
\* new PackageReadmeMcpError(message, code, statusCode)
McpError(code, statusCode) == Thrown("PackageReadmeMcpError", code, statusCode, NoNumber)
\* new Error(message)
PlainError == Thrown("Error", "", 0, NoNumber)
\* new Error(message), the message including the marker msg
ErrorWith(msg) == [PlainError EXCEPT !.msg = msg]
\* what fetch rejects with when its signal is aborted: name === 'AbortError'
AbortError == Thrown("AbortError", "", 0, NoNumber)
\* a thrown string, undefined, ...
NonError == Thrown("NonError", "", 0, NoNumber)

McpClasses ==
  {"PackageReadmeMcpError", "PackageNotFoundError", "VersionNotFoundError",
   "RateLimitError", "NetworkError"}

\* error instanceof Error
IsError(e) == e.cls # "NonError"
\* error instanceof PackageReadmeMcpError
IsMcpError(e) == e.cls \in McpClasses

(***************************************************************************)
(* withRetry                                                               *)
(***************************************************************************)

RECURSIVE Pow2(_)
\* Math.pow(2, n)
Pow2(n) == IF n = 0 THEN 1 ELSE 2 * Pow2(n - 1)

\* The state of a withRetry call that has just been entered.
retryEnter(maxRetries, baseDelay) ==
  [pc |-> IF 0 <= maxRetries THEN "call" ELSE "done",
   maxRetries |-> maxRetries, baseDelay |-> baseDelay, attempt |-> 0,
   lastError |-> Null,
   outcome |-> IF 0 <= maxRetries THEN Null
               ELSE [rejected |-> TRUE, value |-> PlainError],
   invoked |-> 0, thrown |-> <<>>, delays |-> <<>>]

\* `return await fn()` when fn resolves with v.
retryReturn(r, v) ==
  [r EXCEPT !.pc = "done", !.invoked = @ + 1,
            !.outcome = [rejected |-> FALSE, value |-> v]]

\* Variant of retryCatch: the loop gives up one attempt early.
retryCatchEarly(r, error) ==
  LET e == [error EXCEPT !.n = r.invoked + 1]
      lastError == IF IsError(e) THEN e
                   ELSE [e EXCEPT !.cls = "Error", !.wrapped = TRUE]
      r1 == [r EXCEPT !.invoked = @ + 1, !.thrown = Append(@, e),
                      !.lastError = lastError]
  IN  IF r.attempt + 1 >= r.maxRetries
      THEN [r1 EXCEPT !.pc = "done",
                      !.outcome = [rejected |-> TRUE, value |-> lastError]]
      ELSE IF e.cls = "RateLimitError"
      THEN [r1 EXCEPT !.pc = "sleep",
                      !.delays = Append(@, IF e.retryAfter.kind = "number" /\ e.retryAfter.n # 0
                                           THEN e.retryAfter.n * 1000
                                           ELSE r.baseDelay * Pow2(r.attempt))]
      ELSE IF e.cls = "NetworkError"
              \/ (IsMcpError(e) /\ e.statusCode # 0 /\ e.statusCode >= 500)
      THEN [r1 EXCEPT !.pc = "sleep",
                      !.delays = Append(@, r.baseDelay * Pow2(r.attempt))]
      ELSE [r1 EXCEPT !.pc = "done", !.outcome = [rejected |-> TRUE, value |-> e]]

\* Variant of retryCatch: every error that carries a status code is retried.
retryCatchAnyStatus(r, error) ==
  LET e == [error EXCEPT !.n = r.invoked + 1]
      lastError == IF IsError(e) THEN e
                   ELSE [e EXCEPT !.cls = "Error", !.wrapped = TRUE]
      r1 == [r EXCEPT !.invoked = @ + 1, !.thrown = Append(@, e),
                      !.lastError = lastError]
  IN  IF r.attempt = r.maxRetries
      THEN [r1 EXCEPT !.pc = "done",
                      !.outcome = [rejected |-> TRUE, value |-> lastError]]
      ELSE IF e.cls = "RateLimitError"
      THEN [r1 EXCEPT !.pc = "sleep",
                      !.delays = Append(@, IF e.retryAfter.kind = "number" /\ e.retryAfter.n # 0
                                           THEN e.retryAfter.n * 1000
                                           ELSE r.baseDelay * Pow2(r.attempt))]
      ELSE IF e.cls = "NetworkError" \/ (IsMcpError(e) /\ e.statusCode # 0)
      THEN [r1 EXCEPT !.pc = "sleep",
                      !.delays = Append(@, r.baseDelay * Pow2(r.attempt))]
      ELSE [r1 EXCEPT !.pc = "done", !.outcome = [rejected |-> TRUE, value |-> e]]

\* Variant of retryCatch: a RateLimitError is rethrown instead of retried.
retryCatchNoRateLimit(r, error) ==
  LET e == [error EXCEPT !.n = r.invoked + 1]
      lastError == IF IsError(e) THEN e
                   ELSE [e EXCEPT !.cls = "Error", !.wrapped = TRUE]
      r1 == [r EXCEPT !.invoked = @ + 1, !.thrown = Append(@, e),
                      !.lastError = lastError]
  IN  IF r.attempt = r.maxRetries
      THEN [r1 EXCEPT !.pc = "done",
                      !.outcome = [rejected |-> TRUE, value |-> lastError]]
      ELSE IF e.cls = "NetworkError"
              \/ (IsMcpError(e) /\ e.cls # "RateLimitError"
                  /\ e.statusCode # 0 /\ e.statusCode >= 500)
      THEN [r1 EXCEPT !.pc = "sleep",
                      !.delays = Append(@, r.baseDelay * Pow2(r.attempt))]
      ELSE [r1 EXCEPT !.pc = "done", !.outcome = [rejected |-> TRUE, value |-> e]]

\* Variant of retryCatch: every wait is baseDelay, without the factor 2^attempt.
retryCatchFixedDelay(r, error) ==
  LET e == [error EXCEPT !.n = r.invoked + 1]
      lastError == IF IsError(e) THEN e
                   ELSE [e EXCEPT !.cls = "Error", !.wrapped = TRUE]
      r1 == [r EXCEPT !.invoked = @ + 1, !.thrown = Append(@, e),
                      !.lastError = lastError]
  IN  IF r.attempt = r.maxRetries
      THEN [r1 EXCEPT !.pc = "done",
                      !.outcome = [rejected |-> TRUE, value |-> lastError]]
      ELSE IF e.cls = "RateLimitError"
      THEN [r1 EXCEPT !.pc = "sleep",
                      !.delays = Append(@, IF e.retryAfter.kind = "number" /\ e.retryAfter.n # 0
                                           THEN e.retryAfter.n * 1000
                                           ELSE r.baseDelay)]
      ELSE IF e.cls = "NetworkError"
              \/ (IsMcpError(e) /\ e.statusCode # 0 /\ e.statusCode >= 500)
      THEN [r1 EXCEPT !.pc = "sleep", !.delays = Append(@, r.baseDelay)]
      ELSE [r1 EXCEPT !.pc = "done", !.outcome = [rejected |-> TRUE, value |-> e]]

\* The catch block of the loop, when fn rejects with error on this attempt.
retryCatch(r, error) ==
  LET e == [error EXCEPT !.n = r.invoked + 1]
      lastError == IF IsError(e) THEN e
                   ELSE [e EXCEPT !.cls = "Error", !.wrapped = TRUE]
      r1 == [r EXCEPT !.invoked = @ + 1, !.thrown = Append(@, e),
                      !.lastError = lastError]
  IN  IF r.attempt = r.maxRetries
      THEN \* break; then `throw lastError` after the loop
           [r1 EXCEPT !.pc = "done",
                      !.outcome = [rejected |-> TRUE, value |-> lastError]]
      ELSE IF e.cls = "RateLimitError"
      THEN [r1 EXCEPT !.pc = "sleep",
                      !.delays = Append(@, IF e.retryAfter.kind = "number" /\ e.retryAfter.n # 0
                                           THEN e.retryAfter.n * 1000
                                           ELSE r.baseDelay * Pow2(r.attempt))]
      ELSE IF e.cls = "NetworkError"
              \/ (IsMcpError(e) /\ e.statusCode # 0 /\ e.statusCode >= 500)
      THEN [r1 EXCEPT !.pc = "sleep",
                      !.delays = Append(@, r.baseDelay * Pow2(r.attempt))]
      ELSE \* throw error
           [r1 EXCEPT !.pc = "done", !.outcome = [rejected |-> TRUE, value |-> e]]

\* `await sleep(delay); continue`: the next iteration of the loop.
retryContinue(r) == [r EXCEPT !.pc = "call", !.attempt = @ + 1]

(***************************************************************************)
(* SpecRetry: one withRetry call, fn resolving or rejecting at each attempt *)
(***************************************************************************)

\* Bounds of the retry specification.
MaxRetriesBound == 3
MaxBaseDelay == 1

\* What fn may throw.
FnErrors ==
  {PackageNotFoundError, VersionNotFoundError, RateLimitError(NoNumber),
   RateLimitError(Number(2)), RateLimitError(Number(0)), RateLimitError(NaN),
   NetworkError, McpError("HTTP_ERROR", 400), McpError("HTTP_ERROR", 403),
   McpError("HTTP_ERROR", 501), McpError("HTTP_ERROR", 505),
   McpError("VALIDATION_ERROR", 0), PlainError, NonError}

\* What fn may resolve with.
FnValues == {[v |-> <<"ok">>]}

Idle == [pc |-> "idle"]

InitRetry == rt = Idle

\* withRetry(fn, maxRetries, baseDelay) is called.
RetryCall(maxRetries, baseDelay) ==
  /\ rt.pc = "idle"
  /\ rt' = retryEnter(maxRetries, baseDelay)
  /\ UNCHANGED <<cache, now, lastOp, shadow, cleanupInterval, defaultTtl, reqs, calls>>

\* fn resolves.
RetryFnResolves(v) ==
  /\ rt.pc = "call"
  /\ rt' = retryReturn(rt, v)
  /\ UNCHANGED <<cache, now, lastOp, shadow, cleanupInterval, defaultTtl, reqs, calls>>

\* fn rejects.
RetryFnRejects(e) ==
  /\ rt.pc = "call"
  /\ rt' = retryCatch(rt, e)
  /\ UNCHANGED <<cache, now, lastOp, shadow, cleanupInterval, defaultTtl, reqs, calls>>

\* The sleep before the next attempt is over.
RetrySleepOver ==
  /\ rt.pc = "sleep"
  /\ rt' = retryContinue(rt)
  /\ UNCHANGED <<cache, now, lastOp, shadow, cleanupInterval, defaultTtl, reqs, calls>>

NextRetry ==
  \/ \E m \in 0..MaxRetriesBound, b \in 0..MaxBaseDelay : RetryCall(m, b)
  \/ \E v \in FnValues : RetryFnResolves(v)
  \/ \E e \in FnErrors : RetryFnRejects(e)
  \/ RetrySleepOver

InitSpecRetry ==
  /\ InitRetry
  /\ cache = <<>> /\ now = 0 /\ lastOp = Null /\ shadow = Null
  /\ cleanupInterval = "set" /\ defaultTtl = DefaultTtl
  /\ reqs = Null /\ calls = <<>>

SpecRetry == InitSpecRetry /\ [][NextRetry]_vars

(***************************************************************************)
(* Claims about withRetry (checked under SpecRetry)                        *)
(***************************************************************************)

\* The errors the claims call retryable.
ClaimedRetryable(e) ==
  e.cls \in {"NetworkError", "RateLimitError"} \/ e.statusCode >= 500

\* The errors the claims call not retryable: not-found and validation errors.
ClaimedPermanent(e) ==
  \/ e.cls \in {"PackageNotFoundError", "VersionNotFoundError"}
  \/ (e.cls = "PackageReadmeMcpError" /\ e.statusCode = 0)

AllThrownRetryable == \A i \in 1..Len(rt.thrown) : ClaimedRetryable(rt.thrown[i])

RetryDone == rt.pc = "done"
RetryRejected == rt.pc = "done" /\ rt.outcome.rejected
RetryResolved == rt.pc = "done" /\ ~rt.outcome.rejected

\* C5: fn is invoked at least once and at most maxRetries + 1 times; when
\* every attempt fails with a retryable error fn is invoked exactly
\* maxRetries + 1 times and withRetry rejects with the error of the last attempt.
C5_AttemptBudget ==
  rt.pc # "idle" =>
    /\ rt.invoked <= rt.maxRetries + 1
    /\ (RetryDone => rt.invoked >= 1)
    /\ (RetryRejected /\ AllThrownRetryable =>
          /\ rt.invoked = rt.maxRetries + 1
          /\ rt.outcome.value = rt.thrown[Len(rt.thrown)])

\* C5 witness: several retries, all failed with retryable errors, then the rejection.
C5_Witness ==
  /\ RetryRejected /\ AllThrownRetryable
  /\ rt.maxRetries >= 2 /\ rt.invoked = rt.maxRetries + 1

\* C6: when fn throws a not-found or a validation error, that invocation is
\* the last one, no delay follows it and withRetry rejects with that same
\* error; thrown by the first invocation, fn is invoked exactly once.
C6_NoRetryOnPermanent ==
  (rt.pc # "idle" /\ rt.thrown # <<>> /\ ClaimedPermanent(rt.thrown[Len(rt.thrown)])) =>
    /\ RetryRejected
    /\ rt.outcome.value = rt.thrown[Len(rt.thrown)]
    /\ rt.invoked = Len(rt.thrown)
    /\ Len(rt.delays) = Len(rt.thrown) - 1
    /\ (ClaimedPermanent(rt.thrown[1]) => rt.invoked = 1 /\ rt.delays = <<>>)

\* C6 witness: a not-found error on the first invocation, with retries left.
C6_Witness ==
  /\ RetryRejected /\ rt.maxRetries >= 1 /\ rt.invoked = 1
  /\ rt.thrown[1].cls = "PackageNotFoundError"

\* C7: while fn has failed k <= maxRetries times, each time with a retryable
\* error, withRetry has not rejected; when fn then succeeds withRetry resolves
\* with the value fn returned, after exactly k + 1 invocations.
C7_RetryUntilSuccess ==
  rt.pc # "idle" =>
    /\ (AllThrownRetryable /\ Len(rt.thrown) <= rt.maxRetries => ~RetryRejected)
    /\ (RetryResolved =>
          /\ rt.outcome.value \in FnValues
          /\ rt.invoked = Len(rt.thrown) + 1
          /\ Len(rt.delays) = Len(rt.thrown))

\* C7 witness: a rate limit and a server error, then success on the third invocation.
C7_Witness ==
  /\ RetryResolved /\ rt.invoked = 3
  /\ rt.thrown[1].cls = "RateLimitError" /\ rt.thrown[2].statusCode >= 500

(***************************************************************************)
(* Strings                                                                 *)
(***************************************************************************)

Lower ==
  {   "a", "b", "c", "d", "e", "f", "g", "h", "i", "j", "k", "l", "m", "n",
   "o", "p", "q", "r", "s", "t", "u", "v", "w", "x", "y", "z"}
Upper ==
  {   "A", "B", "C", "D", "E", "F", "G", "H", "I", "J", "K", "L", "M", "N",
   "O", "P", "Q", "R", "S", "T", "U", "V", "W", "X", "Y", "Z"}
Digits == {"0", "1", "2", "3", "4", "5", "6", "7", "8", "9"}
\* [a-zA-Z0-9]
Alnum == Lower \cup Upper \cup Digits

\* The pieces that hold nothing but white space.
Whitespace == LineBreaks \cup {" "}

RECURSIVE Join(_)
\* The string whose pieces are s, as one piece.
Join(s) == IF s = <<>> THEN "" ELSE Head(s) \o Join(Tail(s))

RECURSIVE TrimStart(_)
TrimStart(s) ==
  IF s # <<>> /\ Head(s) \in Whitespace THEN TrimStart(Tail(s)) ELSE s

RECURSIVE TrimEnd(_)
TrimEnd(s) ==
  IF s # <<>> /\ s[Len(s)] \in Whitespace THEN TrimEnd(SubSeq(s, 1, Len(s) - 1)) ELSE s

\* s.trim()
Trim(s) == TrimEnd(TrimStart(s))

\* s.indexOf(piece) + 1: the first position of the piece in s, 0 when absent.
IndexOfPiece(s, piece) ==
  IF \E i \in 1..Len(s) : s[i] = piece
  THEN CHOOSE i \in 1..Len(s) : s[i] = piece /\ \A j \in 1..(i - 1) : s[j] # piece
  ELSE 0

RECURSIVE Split(_, _)
\* s.split(sep), sep being one piece.
Split(s, sep) ==
  LET i == IndexOfPiece(s, sep)
  IN  IF i = 0 THEN <<s>>
      ELSE <<SubSeq(s, 1, i - 1)>> \o Split(SubSeq(s, i + 1, Len(s)), sep)

RECURSIVE JoinWith(_, _)
\* parts.join(sep), sep being a string.
JoinWith(parts, sep) ==
  IF parts = <<>> THEN <<>>
  ELSE IF Len(parts) = 1 THEN parts[1]
  ELSE parts[1] \o sep \o JoinWith(Tail(parts), sep)

\* s.includes(piece), for a piece the strings of the model keep whole.
Includes(s, piece) == IndexOfPiece(s, piece) # 0

\* A string in a condition: undefined, null and '' are falsy.
Truthy(s) == s # Undefined /\ s # <<>>

(***************************************************************************)
(* Validators.  The strings they are given are held character by character. *)
(***************************************************************************)

MAX_PACKAGE_NAME_LENGTH == 100
MAX_SEARCH_QUERY_LENGTH == 250
MIN_LIMIT == 1
MAX_LIMIT == 250

\* /^[a-zA-Z0-9][a-zA-Z0-9._-]*$/
PackageNamePattern(s) ==
  /\ s # <<>>
  /\ s[1] \in Alnum
  /\ \A i \in 1..Len(s) : s[i] \in Alnum \cup {".", "_", "-"}

\* validatePackageName: Null when it returns, the error when it throws.
validatePackageName(packageName) ==
  LET invalid == McpError("INVALID_PACKAGE_NAME", 0)
      trimmed == Trim(packageName)
  IN  IF ~Truthy(packageName) THEN invalid
      ELSE IF Length(trimmed) = 0 THEN invalid
      ELSE IF Length(trimmed) > MAX_PACKAGE_NAME_LENGTH THEN invalid
      ELSE IF ~PackageNamePattern(trimmed) THEN invalid
      ELSE IF (\E i \in 1..(Len(trimmed) - 1) : trimmed[i] = "." /\ trimmed[i + 1] = ".")
              \/ trimmed[Len(trimmed)] = "."
      THEN invalid
      ELSE Null

\* 0|[1-9]\d*
NumericIdentifier(s) ==
  /\ s # <<>>
  /\ \A i \in 1..Len(s) : s[i] \in Digits
  /\ (Len(s) = 1 \/ s[1] # "0")

\* \d*[a-zA-Z-][0-9a-zA-Z-]*
AlphanumericIdentifier(s) ==
  /\ \A i \in 1..Len(s) : s[i] \in Alnum \cup {"-"}
  /\ \E i \in 1..Len(s) : s[i] \notin Digits

\* [0-9a-zA-Z-]+
BuildIdentifier(s) ==
  /\ s # <<>>
  /\ \A i \in 1..Len(s) : s[i] \in Alnum \cup {"-"}

\* semverRegex.test(s): three or four numeric parts, then an optional
\* -prerelease and an optional +build, each a dot-separated list of identifiers.
semverRegex(s) ==
  LET plus == IndexOfPiece(s, "+")
      main == IF plus = 0 THEN s ELSE SubSeq(s, 1, plus - 1)
      build == IF plus = 0 THEN <<>> ELSE SubSeq(s, plus + 1, Len(s))
      dash == IndexOfPiece(main, "-")
      core == IF dash = 0 THEN main ELSE SubSeq(main, 1, dash - 1)
      pre == IF dash = 0 THEN <<>> ELSE SubSeq(main, dash + 1, Len(main))
      coreParts == Split(core, ".")
      preParts == Split(pre, ".")
      buildParts == Split(build, ".")
  IN  /\ Len(coreParts) \in {3, 4}
      /\ \A i \in 1..Len(coreParts) : NumericIdentifier(coreParts[i])
      /\ dash # 0 =>
           \A i \in 1..Len(preParts) :
             NumericIdentifier(preParts[i]) \/ AlphanumericIdentifier(preParts[i])
      /\ plus # 0 => \A i \in 1..Len(buildParts) : BuildIdentifier(buildParts[i])

\* validateVersion: Null when it returns, the error when it throws.
validateVersion(version) ==
  LET invalid == McpError("INVALID_VERSION", 0)
      trimmed == Trim(version)
  IN  IF ~Truthy(version) THEN invalid
      ELSE IF Length(trimmed) = 0 THEN invalid
      ELSE IF Join(trimmed) \in {"latest", "prerelease"} THEN Null
      ELSE IF ~semverRegex(trimmed) THEN invalid
      ELSE Null

\* validateSearchQuery: Null when it returns, the error when it throws.
validateSearchQuery(query) ==
  LET invalid == McpError("INVALID_SEARCH_QUERY", 0)
      trimmed == Trim(query)
  IN  IF ~Truthy(query) THEN invalid
      ELSE IF Length(trimmed) = 0 THEN invalid
      ELSE IF Length(trimmed) > MAX_SEARCH_QUERY_LENGTH THEN invalid
      ELSE Null

\* validateLimit, for an integer limit.
validateLimit(limit) ==
  IF limit < MIN_LIMIT \/ limit > MAX_LIMIT THEN McpError("INVALID_LIMIT", 0) ELSE Null

(***************************************************************************)
(* Cache keys                                                              *)
(***************************************************************************)

\* The characters with the codes 32..126, in the order of their codes.  The
\* grave accent (96) cannot be written in a string here: "<96>" holds its
\* place, and "'''" stands for a code fence of three of them.
Ascii ==
  <<    " ", "!", "\"", "#", "$", "%", "&", "'", "(", ")", "*", "+", ",", "-",
    ".", "/", "0", "1", "2", "3", "4", "5", "6", "7", "8", "9", ":", ";",
    "<", "=", ">", "?", "@", "A", "B", "C", "D", "E", "F", "G", "H", "I",
    "J", "K", "L", "M", "N", "O", "P", "Q", "R", "S", "T", "U", "V", "W",
    "X", "Y", "Z", "[", "\\", "]", "^", "_", "<96>", "a", "b", "c", "d", "e",
    "f", "g", "h", "i", "j", "k", "l", "m", "n", "o", "p", "q", "r", "s",
    "t", "u", "v", "w", "x", "y", "z", "{", "|", "}", "~">>

\* The base64 alphabet.
Base64Alphabet ==
  <<    "A", "B", "C", "D", "E", "F", "G", "H", "I", "J", "K", "L", "M", "N",
    "O", "P", "Q", "R", "S", "T", "U", "V", "W", "X", "Y", "Z", "a", "b",
    "c", "d", "e", "f", "g", "h", "i", "j", "k", "l", "m", "n", "o", "p",
    "q", "r", "s", "t", "u", "v", "w", "x", "y", "z", "0", "1", "2", "3",
    "4", "5", "6", "7", "8", "9", "+", "/">>

\* The byte of a character.
CharCode(c) == 31 + CHOOSE i \in 1..Len(Ascii) : Ascii[i] = c

RECURSIVE Base64(_)
\* Buffer.from(s).toString('base64'), s held character by character.
Base64(s) ==
  IF s = <<>> THEN ""
  ELSE LET n == IF Len(s) >= 3 THEN 3 ELSE Len(s)
           b1 == CharCode(s[1])
           b2 == IF n >= 2 THEN CharCode(s[2]) ELSE 0
           b3 == IF n >= 3 THEN CharCode(s[3]) ELSE 0
           bits == b1 * 65536 + b2 * 256 + b3
           c1 == Base64Alphabet[(bits \div 262144) + 1]
           c2 == Base64Alphabet[((bits \div 4096) % 64) + 1]
           c3 == IF n >= 2 THEN Base64Alphabet[((bits \div 64) % 64) + 1] ELSE "="
           c4 == IF n >= 3 THEN Base64Alphabet[(bits % 64) + 1] ELSE "="
       IN  c1 \o c2 \o c3 \o c4 \o Base64(SubSeq(s, n + 1, Len(s)))

\* createCacheKey.packageInfo
packageInfoKey(packageName, version) ==
  "pkg_info:" \o Join(packageName) \o ":" \o Join(version)

\* createCacheKey.packageReadme
packageReadmeKey(packageName, version) ==
  "pkg_readme:" \o Join(packageName) \o ":" \o Join(version)

\* Variant of createCacheKey.searchResults: the query is written as it is.
searchResultsKeyRaw(query, limit, quality, popularity) ==
  "search:" \o Join(query) \o ":" \o ToString(limit)
    \o (IF quality # Undefined THEN ":q:" \o Join(quality) ELSE "")
    \o (IF popularity # Undefined THEN ":p:" \o Join(popularity) ELSE "")

\* createCacheKey.searchResults; quality and popularity are Undefined, or
\* the text of the number as a template literal writes it.
searchResultsKey(query, limit, quality, popularity) ==
  "search:" \o Base64(query) \o ":" \o ToString(limit)
    \o (IF quality # Undefined THEN ":q:" \o Join(quality) ELSE "")
    \o (IF popularity # Undefined THEN ":p:" \o Join(popularity) ELSE "")

(***************************************************************************)
(* README text.  Markdown punctuation is held in pieces of its own: "![",  *)
(* "[", "](", ")"; so are "/", ":" and the scheme and the host of a URL.     *)
(***************************************************************************)

\* The first position in s of a piece that is in the set ps, 0 when there is none.
IndexOfAny(s, ps) ==
  IF \E i \in 1..Len(s) : s[i] \in ps
  THEN CHOOSE i \in 1..Len(s) : s[i] \in ps /\ \A j \in 1..(i - 1) : s[j] \notin ps
  ELSE 0

RECURSIVE removeBadges(_)
\* content.replace(/!\[([^\]]*)\]\([^)]+\)/g, ...): an image gives way to its
\* alt text when that is longer than 3 characters, to nothing otherwise.
removeBadges(s) ==
  IF s = <<>> THEN <<>>
  ELSE LET rest == Tail(s)
           j == IndexOfAny(rest, {"](", "]"})
           k == IF j = 0 THEN 0 ELSE IndexOfPiece(SubSeq(rest, j + 1, Len(rest)), ")")
           altText == SubSeq(rest, 1, j - 1)
       IN  IF Head(s) = "![" /\ j # 0 /\ rest[j] = "](" /\ k > 1
           THEN (IF Length(altText) > 3 THEN altText ELSE <<>>)
                  \o removeBadges(SubSeq(rest, j + k + 1, Len(rest)))
           ELSE <<Head(s)>> \o removeBadges(rest)

RECURSIVE stripRelativeLinks(_)
\* content.replace(/\[([^\]]+)\]\((?!https?:\/\/)([^)]+)\)/g, '$1'): a link
\* whose target does not start with http:// or https:// gives way to its text.
stripRelativeLinks(s) ==
  IF s = <<>> THEN <<>>
  ELSE LET rest == Tail(s)
           j == IndexOfAny(rest, {"](", "]"})
           k == IF j = 0 THEN 0 ELSE IndexOfPiece(SubSeq(rest, j + 1, Len(rest)), ")")
           text == SubSeq(rest, 1, j - 1)
       IN  IF /\ Head(s) = "[" /\ j > 1 /\ rest[j] = "](" /\ k > 1
              /\ rest[j + 1] \notin {"http://", "https://"}
           THEN text \o stripRelativeLinks(SubSeq(rest, j + k + 1, Len(rest)))
           ELSE <<Head(s)>> \o stripRelativeLinks(rest)

RECURSIVE collapseNewlines(_)
\* content.replace(/\n{3,}/g, '\n\n')
collapseNewlines(s) ==
  IF Len(s) < 2 THEN s
  ELSE IF s[1] \in LineBreaks /\ s[2] \in LineBreaks
  THEN collapseNewlines(<<"\n\n">> \o SubSeq(s, 3, Len(s)))
  ELSE <<s[1]>> \o collapseNewlines(Tail(s))

\* ReadmeParser.cleanMarkdown
cleanMarkdown(content) ==
  Trim(collapseNewlines(stripRelativeLinks(removeBadges(content))))

\* tags.split(' ').filter(tag => tag.trim().length > 0)
splitTags(tags) == SelectSeq(Split(tags, " "), LAMBDA tag : Length(Trim(tag)) > 0)

\* The lines both generated READMEs share: authors, tags, installation, project link.
readmeTail(metadata) ==
  (IF Truthy(metadata.authors)
   THEN <<"**Authors:**", " ">> \o metadata.authors \o <<"\n\n">> ELSE <<>>)
  \o (IF Truthy(metadata.tags) /\ Len(splitTags(metadata.tags)) > 0
      THEN <<"**Tags:**", " ">> \o JoinWith(splitTags(metadata.tags), <<",", " ">>)
             \o <<"\n\n">>
      ELSE <<>>)
  \o <<"## Installation", "\n\n", "'''bash", "\n",
       "dotnet add package", " ">> \o metadata.id \o <<"\n", "'''", "\n\n",
       "Or via Package Manager Console:", "\n\n", "'''powershell", "\n",
       "Install-Package", " ">> \o metadata.id \o <<"\n", "'''", "\n\n">>
  \o (IF Truthy(metadata.projectUrl)
      THEN <<"For more information, visit the", " ", "[", "project page", "](">>
             \o metadata.projectUrl \o <<")", ".", "\n\n">>
      ELSE <<>>)

\* `# ${metadata.title || metadata.id}\n\n`
readmeTitle(metadata) ==
  <<"#", " ">> \o (IF Truthy(metadata.title) THEN metadata.title ELSE metadata.id)
    \o <<"\n\n">>

createFallbackReadme(metadata) ==
  readmeTitle(metadata)
  \o (IF Truthy(metadata.description) THEN metadata.description \o <<"\n\n">> ELSE <<>>)
  \o readmeTail(metadata)

createEnhancedFallbackReadme(metadata, catalogEntry) ==
  LET description == IF Truthy(catalogEntry.description) THEN catalogEntry.description
                     ELSE metadata.description
  IN  readmeTitle(metadata)
      \o (IF Truthy(description) THEN description \o <<"\n\n">> ELSE <<>>)
      \o (IF Truthy(catalogEntry.summary) /\ Join(catalogEntry.summary) # Join(description)
          THEN <<"## Summary", "\n\n">> \o catalogEntry.summary \o <<"\n\n">> ELSE <<>>)
      \o (IF Truthy(catalogEntry.releaseNotes)
          THEN <<"## Release Notes", "\n\n">> \o catalogEntry.releaseNotes \o <<"\n\n">>
          ELSE <<>>)
      \o readmeTail(metadata)

(***************************************************************************)
(* GitHub repository URLs                                                  *)
(***************************************************************************)

\* What the four patterns of parseRepositoryUrl demand before the owner.
RepositoryUrlPrefixes ==
  {<<"https://", "github.com", "/">>, <<"http://", "github.com", "/">>,
   <<"git+https://", "github.com", "/">>, <<"git://", "github.com", "/">>,
   <<"git@", "github.com", ":">>}

\* Variant of parseRepositoryUrl: a ".git" after the repository is kept.
parseRepositoryUrlKeepGit(url) ==
  IF Len(url) < 3 \/ SubSeq(url, 1, 3) \notin RepositoryUrlPrefixes THEN Null
  ELSE LET rest == SubSeq(url, 4, Len(url))
           slash == IndexOfPiece(rest, "/")
           owner == SubSeq(rest, 1, slash - 1)
           after == SubSeq(rest, slash + 1, Len(rest))
           next == IndexOfPiece(after, "/")
           seg == IF next = 0 THEN after ELSE SubSeq(after, 1, next - 1)
       IN  IF slash <= 1 \/ seg = <<>> THEN Null
           ELSE [owner |-> owner, repo |-> seg]

\* GitHubApiClient.parseRepositoryUrl: [owner, repo], or Null.  After the
\* prefix come the owner ([^/]+), "/", the repo ([^/]+?, as short as the rest
\* allows), an optional ".git" and an optional "/..." to the end.
parseRepositoryUrl(url) ==
  IF Len(url) < 3 \/ SubSeq(url, 1, 3) \notin RepositoryUrlPrefixes THEN Null
  ELSE LET rest == SubSeq(url, 4, Len(url))
           slash == IndexOfPiece(rest, "/")
           owner == SubSeq(rest, 1, slash - 1)
           after == SubSeq(rest, slash + 1, Len(rest))
           next == IndexOfPiece(after, "/")
           seg == IF next = 0 THEN after ELSE SubSeq(after, 1, next - 1)
           repo == IF Len(seg) >= 2 /\ seg[Len(seg)] = ".git"
                   THEN SubSeq(seg, 1, Len(seg) - 1) ELSE seg
       IN  IF slash <= 1 \/ seg = <<>> THEN Null
           ELSE [owner |-> owner, repo |-> repo]

(***************************************************************************)
(* HTTP: what one fetch comes to, and what the error handlers make of it    *)
(***************************************************************************)

\* response.headers.get(name) of a header the response does not have: null.
NoHeader == <<"<null>">>

\* fetch resolves with a response; retryAfter is its Retry-After header, held
\* character by character (NoHeader: none), body what response.text() or
\* response.json() reads.
Responds(status, retryAfter, body) ==
  [kind |-> "response", status |-> status, retryAfter |-> retryAfter, body |-> body]

\* fetch rejects.
Fails(error) == [kind |-> "error", error |-> error]

\* response.ok
Ok(f) == f.status >= 200 /\ f.status <= 299

\* A body that response.json() cannot parse; nothing, where none is read.
Malformed == [malformed |-> TRUE]
NoBody == [nobody |-> TRUE]

\* What an async function comes to: it resolves with v (held as [v |-> v]),
\* or rejects with the error e.
Resolved(v) == [rejected |-> FALSE, value |-> [v |-> v]]
Rejected(e) == [rejected |-> TRUE, value |-> e]

\* handleApiError: what it throws.
handleApiError(error) ==
  IF IsMcpError(error) THEN error
  ELSE IF IsError(error)
  THEN IF error.msg \in {"ENOTFOUND", "ECONNREFUSED"} THEN NetworkError
       ELSE IF error.msg = "timeout" THEN NetworkError
       ELSE McpError("UNEXPECTED_ERROR", 0)
  ELSE McpError("UNKNOWN_ERROR", 0)

\* The value of the decimal digit c.
DigitValue(c) == CHOOSE d \in 0..9 : ToString(d) = c

RECURSIVE LeadingDigits(_, _)
\* The number the digits at the front of s denote, after the digits that
\* came to acc.
LeadingDigits(s, acc) ==
  IF s # <<>> /\ Head(s) \in Digits
  THEN LeadingDigits(Tail(s), 10 * acc + DigitValue(Head(s)))
  ELSE acc

\* parseInt(s, 10): leading white space is skipped, a sign is read, then the
\* digits up to the first character that is none; NaN when there is no digit.
parseInt(s) ==
  LET t == TrimStart(s)
      signed == t # <<>> /\ Head(t) \in {"+", "-"}
      u == IF signed THEN Tail(t) ELSE t
  IN  IF u = <<>> \/ Head(u) \notin Digits THEN NaN
      ELSE IF signed /\ Head(t) = "-" THEN Number(0 - LeadingDigits(u, 0))
      ELSE Number(LeadingDigits(u, 0))

\* retryAfter ? parseInt(retryAfter, 10) : undefined
retryAfterSeconds(retryAfter) ==
  IF retryAfter = NoHeader \/ retryAfter = <<>> THEN NoNumber ELSE parseInt(retryAfter)

\* Variant of handleHttpError: 501 is taken for a server error as well.
handleHttpErrorAny5xx(status, retryAfter) ==
  IF status = 404 THEN PackageNotFoundError
  ELSE IF status = 429 THEN RateLimitError(retryAfterSeconds(retryAfter))
  ELSE IF status \in {500, 501, 502, 503, 504} THEN NetworkError
  ELSE McpError("HTTP_ERROR", status)

\* handleHttpError: what it throws.
handleHttpError(status, retryAfter) ==
  IF status = 404 THEN PackageNotFoundError
  ELSE IF status = 429 THEN RateLimitError(retryAfterSeconds(retryAfter))
  ELSE IF status \in {500, 502, 503, 504} THEN NetworkError
  ELSE McpError("HTTP_ERROR", status)

\* The catch block the API clients share: a timeout error for an aborted
\* fetch, handleApiError for everything else.
catchApiError(error) ==
  IF error.cls = "AbortError" THEN handleApiError(ErrorWith("timeout"))
  ELSE handleApiError(error)

RECURSIVE RetryFinals(_, _)
\* The states in which a withRetry call can end from the state r, when each
\* invocation of fn comes to one of xs.
RetryFinals(r, xs) ==
  IF r.pc = "done" THEN {r}
  ELSE IF r.pc = "sleep" THEN RetryFinals(retryContinue(r), xs)
  ELSE UNION {RetryFinals(IF x.rejected THEN retryCatch(r, x.value)
                          ELSE retryReturn(r, x.value), xs) : x \in xs}

\* What withRetry(fn, maxRetries, baseDelay) can come to, when each
\* invocation of fn comes to one of xs.
withRetry(xs, maxRetries, baseDelay) ==
  {IF r.outcome.rejected THEN Rejected([r.outcome.value EXCEPT !.n = 0])
   ELSE r.outcome : r \in RetryFinals(retryEnter(maxRetries, baseDelay), xs)}

(***************************************************************************)
(* The NuGet and GitHub API clients                                        *)
(***************************************************************************)

RETRY_ATTEMPTS == 3
BASE_RETRY_DELAY == 1000

\* The ways a fetch can fail to produce a 2xx response.
FetchFailures ==
  {Responds(404, NoHeader, NoBody), Responds(429, NoHeader, NoBody),
   Responds(429, <<"2">>, NoBody), Responds(500, NoHeader, NoBody),
   Responds(400, NoHeader, NoBody),
   Fails(ErrorWith("ENOTFOUND")), Fails(PlainError), Fails(AbortError)}

\* 2xx responses with each of the bodies.
Successes(bodies) == {Responds(200, NoHeader, b) : b \in bodies}

\* Variant of checkPackageExistsFn: the catch block rethrows what the try
\* block threw.
checkPackageExistsFnRethrows(f) ==
  IF f.kind = "response"
  THEN IF f.status = 404 THEN Resolved(FALSE)
       ELSE IF ~Ok(f) THEN Rejected(catchApiError(handleHttpError(f.status, f.retryAfter)))
       ELSE Resolved(TRUE)
  ELSE Rejected(catchApiError(f.error))

\* fn of checkPackageExists
checkPackageExistsFn(f) ==
  IF f.kind = "response"
  THEN IF f.status = 404 THEN Resolved(FALSE)
       ELSE IF ~Ok(f) THEN Resolved(FALSE)   \* handleHttpError throws; caught below
       ELSE Resolved(TRUE)
  ELSE IF f.error.cls = "AbortError" THEN Rejected(handleApiError(ErrorWith("timeout")))
  ELSE Resolved(FALSE)

\* fn of getPackageVersions; the body is [versions |-> the list] or Malformed.
getPackageVersionsFn(f) ==
  IF f.kind = "response"
  THEN IF ~Ok(f) THEN Rejected(catchApiError(handleHttpError(f.status, f.retryAfter)))
       ELSE IF f.body = Malformed THEN Rejected(catchApiError(PlainError))
       ELSE Resolved(f.body.versions)
  ELSE Rejected(catchApiError(f.error))

\* NuSpecParser.parseNuSpec; the document is held as the text of its elements,
\* Undefined for an element it lacks.
parseNuSpec(xml) ==
  [id |-> IF Truthy(xml.id) THEN Trim(xml.id) ELSE <<>>,
   version |-> IF Truthy(xml.version) THEN Trim(xml.version) ELSE <<>>,
   title |-> IF Truthy(xml.title) THEN Trim(xml.title) ELSE Undefined,
   authors |-> IF Truthy(xml.authors) THEN Trim(xml.authors) ELSE <<>>,
   description |-> IF Truthy(xml.description) THEN Trim(xml.description) ELSE <<>>,
   tags |-> IF Truthy(xml.tags) THEN Trim(xml.tags) ELSE <<>>,
   projectUrl |-> IF Truthy(xml.projectUrl) THEN Trim(xml.projectUrl) ELSE Undefined]

\* fn of getPackageMetadata
getPackageMetadataFn(f) ==
  IF f.kind = "response"
  THEN IF ~Ok(f) THEN Rejected(catchApiError(handleHttpError(f.status, f.retryAfter)))
       ELSE Resolved(parseNuSpec(f.body))
  ELSE Rejected(catchApiError(f.error))

\* fn of getPackageReadme; null is Undefined.
getPackageReadmeFn(f) ==
  IF f.kind = "response"
  THEN IF f.status = 404 THEN Resolved(Undefined)
       ELSE IF ~Ok(f) THEN Resolved(Undefined)
       ELSE IF Truthy(f.body) /\ Length(Trim(f.body)) > 0 THEN Resolved(f.body)
       ELSE Resolved(Undefined)
  ELSE Resolved(Undefined)

\* fn of getEnhancedPackageMetadata
getEnhancedPackageMetadataFn(f) ==
  IF f.kind = "response"
  THEN IF f.status = 404 THEN Resolved(Null)
       ELSE IF ~Ok(f) THEN Resolved(Null)
       ELSE IF f.body = Malformed THEN Resolved(Null)
       ELSE Resolved(f.body)
  ELSE Resolved(Null)

\* fn of searchPackages
searchPackagesFn(f) ==
  IF f.kind = "response"
  THEN IF ~Ok(f) THEN Rejected(catchApiError(handleHttpError(f.status, f.retryAfter)))
       ELSE IF f.body = Malformed THEN Rejected(catchApiError(PlainError))
       ELSE Resolved(f.body)
  ELSE Rejected(catchApiError(f.error))

\* fn of GitHubApiClient.getReadme
getReadmeFn(f) ==
  IF f.kind = "response"
  THEN IF ~Ok(f) THEN Rejected(catchApiError(handleHttpError(f.status, f.retryAfter)))
       ELSE Resolved(f.body)
  ELSE Rejected(catchApiError(f.error))

\* versions[versions.length - 1]
Last(s) == s[Len(s)]

\* NuGetApiClient.checkPackageExists: what it can come to.
checkPackageExists(fs) ==
  withRetry({checkPackageExistsFn(f) : f \in fs}, RETRY_ATTEMPTS, BASE_RETRY_DELAY)

\* NuGetApiClient.getPackageVersions
getPackageVersions(fs) ==
  withRetry({getPackageVersionsFn(f) : f \in fs}, RETRY_ATTEMPTS, BASE_RETRY_DELAY)

\* NuGetApiClient.getPackageMetadata: 'latest' is resolved through
\* getPackageVersions (results vs), then the nuspec is fetched (results fs).
getPackageMetadata(version, vs, fs) ==
  LET nuspec == withRetry({getPackageMetadataFn(f) : f \in fs}, RETRY_ATTEMPTS, BASE_RETRY_DELAY)
  IN  IF Join(version) = "latest"
      THEN UNION {IF o.rejected THEN {o}
                  ELSE IF Len(o.value.v) = 0 THEN {Rejected(VersionNotFoundError)}
                  ELSE nuspec : o \in getPackageVersions(vs)}
      ELSE nuspec

\* NuGetApiClient.getPackageReadme
getPackageReadme(version, vs, fs) ==
  LET readme == withRetry({getPackageReadmeFn(f) : f \in fs}, 1, 0)
  IN  IF Join(version) = "latest"
      THEN UNION {IF o.rejected THEN {o}
                  ELSE IF Len(o.value.v) = 0 THEN {Resolved(Undefined)}
                  ELSE readme : o \in getPackageVersions(vs)}
      ELSE readme

\* NuGetApiClient.getEnhancedPackageMetadata
getEnhancedPackageMetadata(version, vs, fs) ==
  LET enhanced == withRetry({getEnhancedPackageMetadataFn(f) : f \in fs}, 1, 0)
  IN  IF Join(version) = "latest"
      THEN UNION {IF o.rejected THEN {o}
                  ELSE IF Len(o.value.v) = 0 THEN {Rejected(VersionNotFoundError)}
                  ELSE enhanced : o \in getPackageVersions(vs)}
      ELSE enhanced

\* NuGetApiClient.searchPackages
searchPackagesApi(fs) ==
  withRetry({searchPackagesFn(f) : f \in fs}, RETRY_ATTEMPTS, BASE_RETRY_DELAY)

\* NuGetApiClient.getAllDownloadStats: getDownloadStats reports no downloads
\* when it resolves, and its rejection is caught, so the three counts are 0.
getAllDownloadStats == {Resolved([last_day |-> 0, last_week |-> 0, last_month |-> 0])}

\* GitHubApiClient.getReadme
getReadme(fs) == withRetry({getReadmeFn(f) : f \in fs}, 3, 1000)

\* GitHubApiClient.getReadmeFromRepository, given what getReadme can come to
getReadmeFromRepository(repository, readmes) ==
  IF repository.type # "git" THEN {Resolved(Undefined)}
  ELSE IF parseRepositoryUrl(repository.url) = Null THEN {Resolved(Undefined)}
  ELSE {IF o.rejected THEN Resolved(Undefined) ELSE o : o \in readmes}

(***************************************************************************)
(* What the registry, the search service and GitHub can answer             *)
(***************************************************************************)

Latest == <<"l", "a", "t", "e", "s", "t">>
Pkg == <<"P", "k", "g">>
V100 == <<"1", ".", "0", ".", "0">>

\* The project URL of the nuspec: a GitHub repository, a GitHub URL without
\* a repository, a project page elsewhere.
ProjectUrls ==
  {<<"https://", "github.com", "/", "acme", "/", "widget">>,
   <<"https://", "github.com", "/", "acme">>,
   <<"https://", "example.com", "/", "widget">>}

NuSpecDocuments ==
  {[id |-> Pkg, version |-> V100, title |-> Undefined, authors |-> <<"Acme">>,
    description |-> <<"A widget">>, tags |-> Undefined, projectUrl |-> u] :
     u \in ProjectUrls}

VersionLists == {[versions |-> <<>>], [versions |-> <<V100>>]}

\* The README the registry serves: none of substance, or one.
NuGetReadmes == {<<>>, <<"\n">>, <<"#", " ", "Widget", "\n\n", "Use it.">>}

\* The registration document: with a catalog entry whose description is no
\* longer than the nuspec's, with one whose is longer.
RegistrationDocuments ==
  {[catalogEntry |-> [description |-> <<"A gadget">>, summary |-> Undefined,
                      releaseNotes |-> Undefined]],
   [catalogEntry |-> [description |-> <<"A widget for every purpose">>,
                      summary |-> Undefined, releaseNotes |-> Undefined]]}

\* The README of the GitHub repository: blank, or one of substance.
GitHubReadmes == {<<"\n">>, <<"#", " ", "Widget on GitHub">>}

\* A package of a search result.
SearchHit(id, authors, totalDownloads, verified, packageTypes) ==
  [id |-> id, version |-> V100, description |-> Undefined, summary |-> <<"s">>,
   authors |-> authors, totalDownloads |-> totalDownloads, verified |-> verified,
   packageTypes |-> packageTypes]

SearchDocuments ==
  {Malformed,
   [totalHits |-> 0, data |-> <<>>],
   [totalHits |-> 3,
    data |-> <<SearchHit(<<"A">>, <<<<"x">>>>, 10, TRUE, <<<<"Dependency">>>>),
               SearchHit(<<"B">>, <<>>, 100, FALSE, <<>>),
               SearchHit(<<"C">>, <<<<"y">>>>, 100, FALSE, <<<<"Dependency">>>>)>>]}

\* The outcomes of each capability, over every way its fetches can go.
checkPackageExistsOutcomes == checkPackageExists(FetchFailures \cup Successes({NoBody}))
getPackageVersionsOutcomes == getPackageVersions(FetchFailures \cup Successes(VersionLists))
getPackageMetadataOutcomes(version) ==
  getPackageMetadata(version, FetchFailures \cup Successes(VersionLists),
                     FetchFailures \cup Successes(NuSpecDocuments))
getPackageMetadataLatest == getPackageMetadataOutcomes(Latest)
getPackageMetadataV100 == getPackageMetadataOutcomes(V100)
getPackageReadmeOutcomes ==
  getPackageReadme(V100, FetchFailures \cup Successes(VersionLists),
                   FetchFailures \cup Successes(NuGetReadmes))
getEnhancedPackageMetadataOutcomes ==
  getEnhancedPackageMetadata(V100, FetchFailures \cup Successes(VersionLists),
                             FetchFailures \cup Successes(RegistrationDocuments))
searchPackagesOutcomes == searchPackagesApi(FetchFailures \cup Successes(SearchDocuments))
getReadmeOutcomes == getReadme(FetchFailures \cup Successes(GitHubReadmes))

(***************************************************************************)
(* The tools.  A client calls one tool at a time; every await of a tool    *)
(* function is a step, taken when the capability awaited settles.  The     *)
(* responses hold the members the claims speak of: usage_examples,         *)
(* installation, basic_info, authors, license, tags, dependencies and      *)
(* download_stats are left out, and repository is held as its url.         *)
(***************************************************************************)

DEFAULT_TTL == 3600000
MAX_SIZE == 104857600

\* Bounds of the tool specification: tool calls per client, clock steps.
MaxCalls == 2
MaxClock == 1

\* One step of the clock: more than half of the default ttl.
ClockStep == (DEFAULT_TTL \div 2) + 1

Clients == {"c1"}

\* A score argument: the number in tenths, and as a template literal writes it.
Score(tenths, text) == [tenths |-> tenths, text |-> text]
NoScore == Score(0, Undefined)

\* The arguments the clients pass.
PackageNameArgs == {Pkg, <<>>}
VersionArgs == {Undefined, V100, <<"1", ".", "0">>}
SearchArgs ==
  {[query |-> <<"j", "s", "o", "n">>, limit |-> 20, quality |-> NoScore,
    popularity |-> NoScore],
   [query |-> <<"j", "s", "o", "n">>, limit |-> 20,
    quality |-> Score(5, <<"0", ".", "5">>), popularity |-> Score(5, <<"0", ".", "5">>)],
   [query |-> <<>>, limit |-> 20, quality |-> NoScore, popularity |-> NoScore],
   [query |-> <<"j", "s", "o", "n">>, limit |-> 0, quality |-> NoScore,
    popularity |-> NoScore],
   [query |-> <<"j", "s", "o", "n">>, limit |-> 20, quality |-> NoScore,
    popularity |-> Score(11, <<"1", ".", "1">>)]}

\* The locals of a tool function in flight.
Request(tool, args, n) ==
  [tool |-> tool, args |-> args, n |-> n, pc |-> "start", cacheKey |-> "",
   fromCache |-> FALSE, packageExists |-> Null, metadata |-> Null,
   latestVersion |-> Undefined,
   nugetReadme |-> Undefined, enhancedMetadata |-> Null, githubReadme |-> Undefined,
   readmeContent |-> <<>>, readmeSource |-> "none", result |-> Null, at |-> 0]

NoRequest == [Request("none", Null, 0) EXCEPT !.pc = "idle"]

\* validateScore
validateScore(score) ==
  IF score.tenths < 0 \/ score.tenths > 10 THEN McpError("INVALID_SCORE", 0) ELSE Null

\* Variant of FirstThrown: only the first validation is made.
FirstCheckOnly(checks) == checks[1]

\* The first of the validations that throws; Null when none does.
FirstThrown(checks) ==
  IF \A i \in 1..Len(checks) : checks[i] = Null THEN Null
  ELSE checks[CHOOSE i \in 1..Len(checks) :
                /\ checks[i] # Null
                /\ \A j \in 1..(i - 1) : checks[j] = Null]

\* The tool function returns (or throws).
Return(c, req, result) ==
  reqs' = [reqs EXCEPT ![c] = [req EXCEPT !.pc = "done", !.result = result, !.at = now]]

\* The tool function awaits a capability.
Await(c, req, pc, capability) ==
  /\ reqs' = [reqs EXCEPT ![c] = [req EXCEPT !.pc = pc]]
  /\ calls' = [calls EXCEPT ![c] = Append(@, capability)]

\* Variant of enter: a validation error clears the cache.
enterClearsOnThrow(req, thrown, cacheKey, capability, c, t) ==
  IF thrown # Null
  THEN [req |-> [req EXCEPT !.pc = "done", !.result = Rejected(thrown), !.at = t],
        calls |-> <<>>, cache |-> <<>>]
  ELSE LET cached == cacheGet(c, cacheKey, t)
       IN  IF cached.ret # Null
           THEN [req |-> [req EXCEPT !.cacheKey = cacheKey, !.fromCache = TRUE,
                                     !.pc = "done", !.result = Resolved(cached.ret),
                                     !.at = t],
                 calls |-> <<>>, cache |-> cached.cache]
           ELSE [req |-> [req EXCEPT !.cacheKey = cacheKey, !.pc = capability],
                 calls |-> <<capability>>, cache |-> cached.cache]

\* A tool function up to its first await: validation, then the cache lookup;
\* the request, the capabilities called and the cache afterwards.
enter(req, thrown, cacheKey, capability, c, t) ==
  IF thrown # Null
  THEN [req |-> [req EXCEPT !.pc = "done", !.result = Rejected(thrown), !.at = t],
        calls |-> <<>>, cache |-> c]
  ELSE LET cached == cacheGet(c, cacheKey, t)
       IN  IF cached.ret # Null
           THEN [req |-> [req EXCEPT !.cacheKey = cacheKey, !.fromCache = TRUE,
                                     !.pc = "done", !.result = Resolved(cached.ret),
                                     !.at = t],
                 calls |-> <<>>, cache |-> cached.cache]
           ELSE [req |-> [req EXCEPT !.cacheKey = cacheKey, !.pc = capability],
                 calls |-> <<capability>>, cache |-> cached.cache]

(***************************************************************************)
(* getPackageReadme                                                        *)
(***************************************************************************)

\* `if (!readmeContent)` before the enhanced metadata are asked for
needsEnhancedMetadataAlways(readmeContent) == TRUE
needsEnhancedMetadata(readmeContent) == ~Truthy(readmeContent)

\* The conditions under which the GitHub README is asked for.
needsGitHubReadme(metadata, readmeContent) ==
  /\ Truthy(metadata.projectUrl)
  /\ Includes(metadata.projectUrl, "github.com")
  /\ ~Truthy(readmeContent)

\* Variant of enhancedReadmeUsable: a description as long as the nuspec's
\* is enough.
enhancedReadmeUsableAtLeast(metadata, enhancedMetadata) ==
  /\ enhancedMetadata # Null
  /\ enhancedMetadata.catalogEntry # Null
  /\ Truthy(enhancedMetadata.catalogEntry.description)
  /\ Length(enhancedMetadata.catalogEntry.description) >= Length(metadata.description)

\* The enhanced metadata give a README: there is a catalog entry whose
\* description is longer than the nuspec's.
enhancedReadmeUsable(metadata, enhancedMetadata) ==
  /\ enhancedMetadata # Null
  /\ enhancedMetadata.catalogEntry # Null
  /\ Truthy(enhancedMetadata.catalogEntry.description)
  /\ Length(enhancedMetadata.catalogEntry.description) > Length(metadata.description)

\* repository.url of the response, Undefined without a repository
repositoryOf(metadata) ==
  IF Truthy(metadata.projectUrl) /\ Includes(metadata.projectUrl, "github.com")
  THEN metadata.projectUrl
  ELSE Undefined

\* Variant of readmeNotFound: the version is reported as unknown.
readmeNotFoundUnknown(package_name, version) ==
  [package_name |-> package_name, version |-> <<"unknown">>,
   description |-> <<"Package not found">>, readme_content |-> <<>>,
   usage_examples |-> <<>>, authors |-> <<>>, tags |-> <<>>,
   repository |-> Undefined, exists |-> FALSE]

readmeNotFound(package_name, version) ==
  [package_name |-> package_name, version |-> version,
   description |-> <<"Package not found">>, readme_content |-> <<>>,
   usage_examples |-> <<>>, authors |-> <<>>, tags |-> <<>>,
   repository |-> Undefined, exists |-> FALSE]

readmeResponse(package_name, metadata, readmeContent) ==
  [package_name |-> package_name, version |-> metadata.version,
   description |-> IF Truthy(metadata.description) THEN metadata.description
                   ELSE <<"No description available">>,
   readme_content |-> cleanMarkdown(readmeContent),
   repository |-> repositoryOf(metadata), exists |-> TRUE]

\* Variant of finishReadme: no README is generated when none was found.
finishReadmeAsFound(c, req) ==
  LET response == readmeResponse(req.args.package_name, req.metadata, req.readmeContent)
  IN  /\ cache' = cacheSet(cache, req.cacheKey, response, 0, now, defaultTtl, MAX_SIZE)
      /\ Return(c, req, Resolved(response))
      /\ UNCHANGED calls

\* getPackageReadme from the generated README to its return.
finishReadme(c, req) ==
  LET generated == ~Truthy(req.readmeContent)
      readmeContent == IF generated THEN createFallbackReadme(req.metadata)
                       ELSE req.readmeContent
      readmeSource == IF generated THEN "generated" ELSE req.readmeSource
      response == readmeResponse(req.args.package_name, req.metadata, readmeContent)
  IN  /\ cache' = cacheSet(cache, req.cacheKey, response, 0, now, defaultTtl, MAX_SIZE)
      /\ Return(c, [req EXCEPT !.readmeContent = readmeContent,
                               !.readmeSource = readmeSource], Resolved(response))
      /\ UNCHANGED calls

\* getPackageReadme from the repository info on.
afterEnhanced(c, req) ==
  IF needsGitHubReadme(req.metadata, req.readmeContent)
  THEN Await(c, req, "getReadmeFromRepository", "getReadmeFromRepository")
       /\ UNCHANGED cache
  ELSE finishReadme(c, req)

\* getPackageReadme from the enhanced metadata on.
afterNuGetReadme(c, req) ==
  IF needsEnhancedMetadata(req.readmeContent)
  THEN Await(c, req, "getEnhancedPackageMetadata", "getEnhancedPackageMetadata")
       /\ UNCHANGED cache
  ELSE afterEnhanced(c, req)

\* A client calls getPackageReadme({package_name, version}).
GetPackageReadme(c, package_name, versionArg) ==
  LET version == IF versionArg = Undefined THEN Latest ELSE versionArg
      thrown == FirstThrown(<<validatePackageName(package_name),
                              IF Join(version) # "latest" THEN validateVersion(version)
                              ELSE Null>>)
      req == Request("get_package_readme",
                     [package_name |-> package_name, version |-> version],
                     reqs[c].n + 1)
      entered == enter(req, thrown, packageReadmeKey(package_name, version),
                       "checkPackageExists", cache, now)
  IN  /\ reqs[c].pc \in {"idle", "done"}
      /\ reqs[c].n < MaxCalls
      /\ reqs' = [reqs EXCEPT ![c] = entered.req]
      /\ calls' = [calls EXCEPT ![c] = entered.calls]
      /\ cache' = entered.cache
      /\ UNCHANGED <<now, lastOp, shadow, rt, cleanupInterval, defaultTtl>>

\* checkPackageExists settles in getPackageReadme.
ReadmeExistsSettles(c, o) ==
  /\ reqs[c].tool = "get_package_readme" /\ reqs[c].pc = "checkPackageExists"
  /\ o \in checkPackageExistsOutcomes
  /\ IF o.rejected THEN Return(c, reqs[c], o) /\ UNCHANGED <<cache, calls>>
     ELSE IF ~o.value.v
     THEN /\ Return(c, [reqs[c] EXCEPT !.packageExists = o.value],
                    Resolved(readmeNotFound(reqs[c].args.package_name,
                                            reqs[c].args.version)))
          /\ UNCHANGED <<cache, calls>>
     ELSE /\ Await(c, [reqs[c] EXCEPT !.packageExists = o.value],
                   "getPackageMetadata", "getPackageMetadata")
          /\ UNCHANGED cache
  /\ UNCHANGED <<now, lastOp, shadow, rt, cleanupInterval, defaultTtl>>

\* getPackageMetadata settles in getPackageReadme.
ReadmeMetadataSettles(c, o) ==
  /\ reqs[c].tool = "get_package_readme" /\ reqs[c].pc = "getPackageMetadata"
  /\ o \in (IF reqs[c].args.version = Latest THEN getPackageMetadataLatest
            ELSE getPackageMetadataV100)
  /\ IF o.rejected THEN Return(c, reqs[c], o) /\ UNCHANGED <<cache, calls>>
     ELSE Await(c, [reqs[c] EXCEPT !.metadata = o.value.v],
                "getPackageReadme", "getPackageReadme") /\ UNCHANGED cache
  /\ UNCHANGED <<now, lastOp, shadow, rt, cleanupInterval, defaultTtl>>

\* nugetApi.getPackageReadme settles.
NuGetReadmeSettles(c, o) ==
  /\ reqs[c].tool = "get_package_readme" /\ reqs[c].pc = "getPackageReadme"
  /\ o \in getPackageReadmeOutcomes
  /\ IF o.rejected THEN Return(c, reqs[c], o) /\ UNCHANGED <<cache, calls>>
     ELSE LET nugetReadme == o.value.v
              req == [reqs[c] EXCEPT !.nugetReadme = nugetReadme]
          IN  IF Truthy(nugetReadme)
              THEN afterNuGetReadme(c, [req EXCEPT !.readmeContent = nugetReadme,
                                                   !.readmeSource = "nuget"])
              ELSE afterNuGetReadme(c, req)
  /\ UNCHANGED <<now, lastOp, shadow, rt, cleanupInterval, defaultTtl>>

\* getEnhancedPackageMetadata settles.
EnhancedMetadataSettles(c, o) ==
  /\ reqs[c].tool = "get_package_readme" /\ reqs[c].pc = "getEnhancedPackageMetadata"
  /\ o \in getEnhancedPackageMetadataOutcomes
  /\ IF o.rejected THEN Return(c, reqs[c], o) /\ UNCHANGED <<cache, calls>>
     ELSE LET enhancedMetadata == o.value.v
              req == [reqs[c] EXCEPT !.enhancedMetadata = enhancedMetadata]
          IN  IF enhancedReadmeUsable(req.metadata, enhancedMetadata)
              THEN afterEnhanced(c,
                     [req EXCEPT !.readmeContent =
                                   createEnhancedFallbackReadme(req.metadata,
                                     enhancedMetadata.catalogEntry),
                                 !.readmeSource = "nuget-enhanced"])
              ELSE afterEnhanced(c, req)
  /\ UNCHANGED <<now, lastOp, shadow, rt, cleanupInterval, defaultTtl>>

\* githubApi.getReadmeFromRepository settles.
GitHubReadmeSettles(c, o) ==
  /\ reqs[c].tool = "get_package_readme" /\ reqs[c].pc = "getReadmeFromRepository"
  /\ o \in getReadmeFromRepository([type |-> "git", url |-> reqs[c].metadata.projectUrl],
                                   getReadmeOutcomes)
  /\ LET githubReadme == o.value.v
         req == [reqs[c] EXCEPT !.githubReadme = githubReadme]
     IN  IF Truthy(githubReadme)
         THEN finishReadme(c, [req EXCEPT !.readmeContent = githubReadme,
                                          !.readmeSource = "github"])
         ELSE finishReadme(c, req)
  /\ UNCHANGED <<now, lastOp, shadow, rt, cleanupInterval, defaultTtl>>

(***************************************************************************)
(* getPackageInfo                                                          *)
(***************************************************************************)

infoNotFound(package_name) ==
  [package_name |-> package_name, latest_version |-> <<"unknown">>,
   description |-> <<"Package not found">>, authors |-> <<>>, tags |-> <<>>,
   repository |-> Undefined, exists |-> FALSE]

infoResponse(package_name, latestVersion, metadata) ==
  [package_name |-> package_name, latest_version |-> latestVersion,
   description |-> IF Truthy(metadata.description) THEN metadata.description
                   ELSE <<"No description available">>,
   repository |-> repositoryOf(metadata), exists |-> TRUE]

\* A client calls getPackageInfo({package_name}).
GetPackageInfo(c, package_name) ==
  LET req == Request("get_package_info", [package_name |-> package_name], reqs[c].n + 1)
      entered == enter(req, validatePackageName(package_name),
                       packageInfoKey(package_name, Latest), "checkPackageExists",
                       cache, now)
  IN  /\ reqs[c].pc \in {"idle", "done"}
      /\ reqs[c].n < MaxCalls
      /\ reqs' = [reqs EXCEPT ![c] = entered.req]
      /\ calls' = [calls EXCEPT ![c] = entered.calls]
      /\ cache' = entered.cache
      /\ UNCHANGED <<now, lastOp, shadow, rt, cleanupInterval, defaultTtl>>

\* checkPackageExists settles in getPackageInfo.
InfoExistsSettles(c, o) ==
  /\ reqs[c].tool = "get_package_info" /\ reqs[c].pc = "checkPackageExists"
  /\ o \in checkPackageExistsOutcomes
  /\ IF o.rejected THEN Return(c, reqs[c], o) /\ UNCHANGED calls
     ELSE IF ~o.value.v
     THEN Return(c, [reqs[c] EXCEPT !.packageExists = o.value],
                 Resolved(infoNotFound(reqs[c].args.package_name)))
          /\ UNCHANGED calls
     ELSE Await(c, [reqs[c] EXCEPT !.packageExists = o.value],
                "getPackageVersions", "getPackageVersions")
  /\ UNCHANGED <<cache, now, lastOp, shadow, rt, cleanupInterval, defaultTtl>>

\* getPackageVersions settles in getPackageInfo.
InfoVersionsSettles(c, o) ==
  /\ reqs[c].tool = "get_package_info" /\ reqs[c].pc = "getPackageVersions"
  /\ o \in getPackageVersionsOutcomes
  /\ IF o.rejected THEN Return(c, reqs[c], o) /\ UNCHANGED calls
     ELSE IF Len(o.value.v) = 0
     THEN Return(c, reqs[c], Rejected(ErrorWith("No versions found"))) /\ UNCHANGED calls
     ELSE Await(c, [reqs[c] EXCEPT !.latestVersion = Last(o.value.v)],
                "getPackageMetadata", "getPackageMetadata")
  /\ UNCHANGED <<cache, now, lastOp, shadow, rt, cleanupInterval, defaultTtl>>

\* getPackageMetadata settles in getPackageInfo.
InfoMetadataSettles(c, o) ==
  /\ reqs[c].tool = "get_package_info" /\ reqs[c].pc = "getPackageMetadata"
  /\ o \in getPackageMetadataV100
  /\ IF o.rejected THEN Return(c, reqs[c], o) /\ UNCHANGED calls
     ELSE Await(c, [reqs[c] EXCEPT !.metadata = o.value.v],
                "getAllDownloadStats", "getAllDownloadStats")
  /\ UNCHANGED <<cache, now, lastOp, shadow, rt, cleanupInterval, defaultTtl>>

\* getAllDownloadStats settles; getPackageInfo builds, caches and returns
\* its response.
InfoStatsSettles(c, o) ==
  /\ reqs[c].tool = "get_package_info" /\ reqs[c].pc = "getAllDownloadStats"
  /\ o \in getAllDownloadStats
  /\ LET req == reqs[c]
         response == infoResponse(req.args.package_name, req.latestVersion, req.metadata)
     IN  /\ cache' = cacheSet(cache, req.cacheKey, response, 0, now, defaultTtl, MAX_SIZE)
         /\ Return(c, req, Resolved(response))
  /\ UNCHANGED <<calls, now, lastOp, shadow, rt, cleanupInterval, defaultTtl>>

(***************************************************************************)
(* searchPackages                                                          *)
(***************************************************************************)

\* searchResults.data.map(...)
searchResult(pkg) ==
  [name |-> pkg.id, version |-> pkg.version,
   description |-> IF Truthy(pkg.description) THEN pkg.description
                   ELSE IF Truthy(pkg.summary) THEN pkg.summary
                   ELSE <<"No description available">>,
   authors |-> pkg.authors, totalDownloads |-> pkg.totalDownloads,
   verified |-> pkg.verified, packageTypes |-> pkg.packageTypes]

\* The quality score of a package, in tenths.
qualityScore(pkg) ==
  (IF pkg.verified THEN 5 ELSE 0)
  + (IF \E i \in 1..Len(pkg.packageTypes) : Join(pkg.packageTypes[i]) = "Dependency"
     THEN 3 ELSE 0)
  + (IF Len(pkg.authors) > 0 THEN 2 ELSE 0)

filterByQuality(packages, quality) ==
  SelectSeq(packages, LAMBDA pkg : qualityScore(pkg) >= quality.tenths)

\* Math.max(...packages.map(pkg => pkg.totalDownloads), 1)
maxDownloads(packages) ==
  LET ds == {packages[i].totalDownloads : i \in 1..Len(packages)} \cup {1}
  IN  CHOOSE d \in ds : \A e \in ds : e <= d

\* Variant of filterByPopularity: a score equal to the threshold fails.
filterByPopularityStrict(packages, popularity) ==
  SelectSeq(packages, LAMBDA pkg :
    pkg.totalDownloads * 10 > popularity.tenths * maxDownloads(packages))

filterByPopularity(packages, popularity) ==
  SelectSeq(packages, LAMBDA pkg :
    pkg.totalDownloads * 10 >= popularity.tenths * maxDownloads(packages))

RECURSIVE sortByDownloads(_)
\* Array.prototype.sort by descending totalDownloads; the sort is stable.
sortByDownloads(packages) ==
  IF Len(packages) = 0 THEN <<>>
  ELSE LET ds == {packages[i].totalDownloads : i \in 1..Len(packages)}
           top == CHOOSE d \in ds : \A e \in ds : e <= d
       IN  SelectSeq(packages, LAMBDA pkg : pkg.totalDownloads = top)
           \o sortByDownloads(SelectSeq(packages, LAMBDA pkg : pkg.totalDownloads # top))

searchResponse(query, quality, popularity, data) ==
  LET packages == [i \in 1..Len(data) |-> searchResult(data[i])]
      byQuality == IF quality.text # Undefined THEN filterByQuality(packages, quality)
                   ELSE packages
      byPopularity == IF popularity.text # Undefined
                      THEN filterByPopularity(byQuality, popularity)
                      ELSE byQuality
      filteredPackages == sortByDownloads(byPopularity)
  IN  [query |-> query, total_count |-> Len(filteredPackages),
       packages |-> filteredPackages]

\* A client calls searchPackages({query, limit, quality, popularity}).
SearchPackages(c, query, limit, quality, popularity) ==
  LET thrown == FirstThrown(<<validateSearchQuery(query), validateLimit(limit),
                              IF quality.text # Undefined THEN validateScore(quality)
                              ELSE Null,
                              IF popularity.text # Undefined THEN validateScore(popularity)
                              ELSE Null>>)
      req == Request("search_packages",
                     [query |-> query, limit |-> limit, quality |-> quality,
                      popularity |-> popularity], reqs[c].n + 1)
      entered == enter(req, thrown,
                       searchResultsKey(query, limit, quality.text, popularity.text),
                       "searchPackages", cache, now)
  IN  /\ reqs[c].pc \in {"idle", "done"}
      /\ reqs[c].n < MaxCalls
      /\ reqs' = [reqs EXCEPT ![c] = entered.req]
      /\ calls' = [calls EXCEPT ![c] = entered.calls]
      /\ cache' = entered.cache
      /\ UNCHANGED <<now, lastOp, shadow, rt, cleanupInterval, defaultTtl>>

\* nugetApi.searchPackages settles; searchPackages builds, caches (for ten
\* minutes) and returns its response.
SearchSettles(c, o) ==
  /\ reqs[c].tool = "search_packages" /\ reqs[c].pc = "searchPackages"
  /\ o \in searchPackagesOutcomes
  /\ IF o.rejected THEN Return(c, reqs[c], o) /\ UNCHANGED cache
     ELSE LET req == reqs[c]
              response == searchResponse(req.args.query, req.args.quality,
                                         req.args.popularity, o.value.v.data)
          IN  /\ cache' = cacheSet(cache, req.cacheKey, response, 600000, now,
                                   defaultTtl, MAX_SIZE)
              /\ Return(c, req, Resolved(response))
  /\ UNCHANGED <<calls, now, lastOp, shadow, rt, cleanupInterval, defaultTtl>>

(***************************************************************************)
(* Spec: the three tools over the one cache of the server                  *)
(***************************************************************************)

\* Time passes.
ClockAdvances ==
  /\ now < MaxClock * ClockStep
  /\ now' = now + ClockStep
  /\ UNCHANGED <<cache, lastOp, shadow, rt, cleanupInterval, defaultTtl, reqs, calls>>

Init ==
  /\ cache = <<>>
  /\ cleanupInterval = "set"
  /\ defaultTtl = DEFAULT_TTL
  /\ now = 0
  /\ lastOp = NoOp
  /\ shadow = Null
  /\ rt = Null
  /\ reqs = [c \in Clients |-> NoRequest]
  /\ calls = [c \in Clients |-> <<>>]

Next ==
  \/ \E c \in Clients, package_name \in PackageNameArgs, version \in VersionArgs :
       GetPackageReadme(c, package_name, version)
  \/ \E c \in Clients, o \in checkPackageExistsOutcomes : ReadmeExistsSettles(c, o)
  \/ \E c \in Clients, o \in getPackageMetadataLatest \cup getPackageMetadataV100 :
       ReadmeMetadataSettles(c, o)
  \/ \E c \in Clients, o \in getPackageReadmeOutcomes : NuGetReadmeSettles(c, o)
  \/ \E c \in Clients, o \in getEnhancedPackageMetadataOutcomes :
       EnhancedMetadataSettles(c, o)
  \/ \E c \in Clients, o \in getReadmeOutcomes \cup {Resolved(Undefined)} :
       GitHubReadmeSettles(c, o)
  \/ \E c \in Clients, package_name \in PackageNameArgs : GetPackageInfo(c, package_name)
  \/ \E c \in Clients, o \in checkPackageExistsOutcomes : InfoExistsSettles(c, o)
  \/ \E c \in Clients, o \in getPackageVersionsOutcomes : InfoVersionsSettles(c, o)
  \/ \E c \in Clients, o \in getPackageMetadataV100 : InfoMetadataSettles(c, o)
  \/ \E c \in Clients, o \in getAllDownloadStats : InfoStatsSettles(c, o)
  \/ \E c \in Clients, args \in SearchArgs :
       SearchPackages(c, args.query, args.limit, args.quality, args.popularity)
  \/ \E c \in Clients, o \in searchPackagesOutcomes : SearchSettles(c, o)
  \/ ClockAdvances
  \/ CleanupTimer

Spec == Init /\ [][Next]_vars

(***************************************************************************)
(* Claims about the tools (checked under Spec)                             *)
(***************************************************************************)

\* The capabilities getPackageReadme can call, in the order of its stages.
ReadmeStages ==
  <<"checkPackageExists", "getPackageMetadata", "getPackageReadme",
    "getEnhancedPackageMetadata", "getReadmeFromRepository">>

IsPrefix(s, t) == Len(s) <= Len(t) /\ s = SubSeq(t, 1, Len(s))

\* The step is c calling a tool.
IsCall(c) == reqs'[c].n = reqs[c].n + 1

\* c's tool function has returned a response it built itself.
Built(c, tool) ==
  /\ reqs[c].tool = tool
  /\ reqs[c].pc = "done"
  /\ ~reqs[c].fromCache
  /\ ~reqs[c].result.rejected

\* C1 (as stated): after get_package_info or get_package_readme has returned
\* its exists=false response for a package, the next call with the same
\* arguments made within the TTL is served from the cache and calls no
\* capability, the existence check included.
C1_NotFoundCached ==
  [][\A c \in Clients :
       (/\ reqs[c].tool \in {"get_package_info", "get_package_readme"}
        /\ reqs[c].pc = "done"
        /\ ~reqs[c].result.rejected
        /\ ~reqs[c].result.value.v.exists
        /\ IsCall(c)
        /\ reqs'[c].tool = reqs[c].tool
        /\ reqs'[c].args = reqs[c].args
        /\ now - reqs[c].at <= DEFAULT_TTL)
       => /\ reqs'[c].fromCache
          /\ "checkPackageExists" \notin {calls'[c][i] : i \in 1..Len(calls'[c])}]_vars

\* C8: on a cache miss for an existing package, getPackageReadme calls its
\* sources in the fixed order NuGet README, enhanced metadata, GitHub README;
\* it uses the content of the first stage that yields usable content and calls
\* no later source: with a NuGet README neither the enhanced metadata nor
\* GitHub are asked; GitHub is asked exactly when the project URL is a GitHub
\* URL and the two NuGet stages gave no content; the README is generated when
\* no stage gave content.
C8_OrderedShortCircuit ==
  \A c \in Clients :
    /\ reqs[c].tool = "get_package_readme" => IsPrefix(calls[c], ReadmeStages)
    /\ (Built(c, "get_package_readme") /\ reqs[c].result.value.v.exists) =>
         LET r == reqs[c]
             fromNuGet == Truthy(r.nugetReadme)
             fromEnhanced == enhancedReadmeUsable(r.metadata, r.enhancedMetadata)
             fromGitHub == Truthy(r.githubReadme)
             asked == Len(calls[c])
         IN  /\ r.result.value.v.readme_content = cleanMarkdown(r.readmeContent)
             /\ fromNuGet =>
                  /\ asked = 3
                  /\ r.readmeContent = r.nugetReadme /\ r.readmeSource = "nuget"
             /\ (~fromNuGet /\ fromEnhanced) =>
                  /\ asked = 4
                  /\ r.readmeContent =
                       createEnhancedFallbackReadme(r.metadata,
                                                    r.enhancedMetadata.catalogEntry)
                  /\ r.readmeSource = "nuget-enhanced"
             /\ (~fromNuGet /\ ~fromEnhanced) =>
                  /\ asked = (IF repositoryOf(r.metadata) # Undefined THEN 5 ELSE 4)
                  /\ IF asked = 5 /\ fromGitHub
                     THEN r.readmeContent = r.githubReadme /\ r.readmeSource = "github"
                     ELSE /\ r.readmeContent = createFallbackReadme(r.metadata)
                          /\ r.readmeSource = "generated"

\* C8 witness: a package with a GitHub project URL and a NuGet README was
\* answered from the NuGet README after three capability calls.
C8_Witness ==
  \E c \in Clients :
    /\ Built(c, "get_package_readme")
    /\ reqs[c].result.value.v.exists
    /\ reqs[c].readmeSource = "nuget"
    /\ repositoryOf(reqs[c].metadata) # Undefined
    /\ calls[c] = SubSeq(ReadmeStages, 1, 3)

\* C9 (as stated): once the package exists and its metadata are fetched,
\* whatever the enhanced metadata call and the GitHub README fetch come to,
\* getPackageReadme returns a response with exists = true and a non-empty
\* README.
C9_AlwaysReadme ==
  \A c \in Clients :
    (/\ reqs[c].tool = "get_package_readme"
     /\ reqs[c].pc = "done"
     /\ ~reqs[c].fromCache
     /\ reqs[c].metadata # Null)
    => /\ ~reqs[c].result.rejected
       /\ reqs[c].result.value.v.exists
       /\ Length(reqs[c].result.value.v.readme_content) > 0

\* C10: when a tool is called and the cache holds a fresh entry under the
\* cache key of the request, the tool returns that entry's value and calls no
\* capability.
C10_CacheHitShortCircuit ==
  [][\A c \in Clients :
       (/\ IsCall(c)
        /\ reqs'[c].cacheKey \in KeysOf(cache)
        /\ ~Expired(EntryOf(cache, reqs'[c].cacheKey), now))
       => /\ reqs'[c].pc = "done"
          /\ reqs'[c].result = Resolved(EntryOf(cache, reqs'[c].cacheKey).data)
          /\ calls'[c] = <<>>]_vars

\* C10 witness: getPackageReadme returned the cached response of an existing
\* package without calling a capability.
C10_Witness ==
  \E c \in Clients :
    /\ reqs[c].tool = "get_package_readme"
    /\ reqs[c].pc = "done"
    /\ reqs[c].fromCache
    /\ reqs[c].result.value.v.exists
    /\ calls[c] = <<>>

\* getPackageInfo and searchPackages, too, have been served from the cache.
CacheHitOfInfo ==
  \E c \in Clients :
    reqs[c].tool = "get_package_info" /\ reqs[c].fromCache /\ calls[c] = <<>>
CacheHitOfSearch ==
  \E c \in Clients :
    reqs[c].tool = "search_packages" /\ reqs[c].fromCache /\ calls[c] = <<>>

(***************************************************************************)
(* Claims about the failures of the tools (checked under Spec)             *)
(***************************************************************************)

\* The codes of the errors the validators throw.
ValidationCodes ==
  {"INVALID_PACKAGE_NAME", "INVALID_VERSION", "INVALID_SEARCH_QUERY",
   "INVALID_LIMIT", "INVALID_SCORE"}

\* The validations the tool of the request makes of its arguments, in order.
ValidationsOf(req) ==
  IF req.tool = "get_package_readme"
  THEN <<validatePackageName(req.args.package_name),
         IF Join(req.args.version) # "latest" THEN validateVersion(req.args.version)
         ELSE Null>>
  ELSE IF req.tool = "get_package_info"
  THEN <<validatePackageName(req.args.package_name)>>
  ELSE <<validateSearchQuery(req.args.query), validateLimit(req.args.limit),
         validateScore(req.args.quality), validateScore(req.args.popularity)>>

\* Some argument of the request is invalid.
InvalidArgs(req) ==
  \E i \in 1..Len(ValidationsOf(req)) : ValidationsOf(req)[i] # Null

\* C11: a tool called with an invalid package name, version (other than
\* 'latest'), search query, limit, quality or popularity throws the
\* validation error of the first invalid argument at once: the cache is left
\* as it was and no capability is called.
C11_ValidationFailsFast ==
  [][\A c \in Clients :
       (IsCall(c) /\ InvalidArgs(reqs'[c]))
       => /\ reqs'[c].pc = "done"
          /\ reqs'[c].result.rejected
          /\ reqs'[c].result.value.code \in ValidationCodes
          /\ reqs'[c].result.value \in
               {ValidationsOf(reqs'[c])[i] : i \in 1..Len(ValidationsOf(reqs'[c]))}
          /\ ~reqs'[c].fromCache
          /\ cache' = cache
          /\ calls'[c] = <<>>]_vars

\* C11 witness: a call with a valid package name and an invalid version was
\* rejected with INVALID_VERSION while the cache held an entry.
C11_Witness ==
  \E c \in Clients :
    /\ reqs[c].pc = "done"
    /\ reqs[c].result.rejected
    /\ reqs[c].result.value.code = "INVALID_VERSION"
    /\ calls[c] = <<>>
    /\ cache # <<>>

NotFoundOfInfo ==
  \E c \in Clients :
    /\ reqs[c].tool = "get_package_info"
    /\ reqs[c].packageExists = [v |-> FALSE]
    /\ reqs[c].pc = "done"

(***************************************************************************)
(* SpecApi: one call of a method of NuGetApiClient, fetch by fetch.  reqs   *)
(* is the call in flight, rt the state of its withRetry, calls the results  *)
(* of the fetches made so far, one for each invocation of fn.               *)
(***************************************************************************)

\* The methods the tools call for their primary data.
ApiMethods ==
  {"checkPackageExists", "getPackageVersions", "getPackageMetadata", "searchPackages"}

\* The bodies a 2xx response to the fetch of the method can have.
ApiBodies(method) ==
  IF method = "checkPackageExists" THEN {NoBody}
  ELSE IF method = "getPackageVersions" THEN VersionLists
  ELSE IF method = "getPackageMetadata" THEN NuSpecDocuments
  ELSE SearchDocuments

\* fn of the method, given what its fetch comes to.
ApiFn(method, f) ==
  IF method = "checkPackageExists" THEN checkPackageExistsFn(f)
  ELSE IF method = "getPackageVersions" THEN getPackageVersionsFn(f)
  ELSE IF method = "getPackageMetadata" THEN getPackageMetadataFn(f)
  ELSE searchPackagesFn(f)

\* The method is called: `return withRetry(async () => { ... }, 3, 1000)`.
ApiCall(method) ==
  /\ reqs = Null
  /\ reqs' = [method |-> method]
  /\ rt' = retryEnter(RETRY_ATTEMPTS, BASE_RETRY_DELAY)
  /\ UNCHANGED <<cache, now, lastOp, shadow, cleanupInterval, defaultTtl, calls>>

\* The fetch of the current attempt settles, and fn with it.
ApiFetchSettles(f) ==
  /\ reqs # Null
  /\ rt.pc = "call"
  /\ f \in FetchFailures \cup Successes(ApiBodies(reqs.method))
  /\ LET x == ApiFn(reqs.method, f)
     IN  rt' = IF x.rejected THEN retryCatch(rt, x.value)
               ELSE retryReturn(rt, x.value)
  /\ calls' = Append(calls, f)
  /\ UNCHANGED <<cache, now, lastOp, shadow, cleanupInterval, defaultTtl, reqs>>

NextApi ==
  \/ \E method \in ApiMethods : ApiCall(method)
  \/ \E f \in FetchFailures \cup UNION {Successes(ApiBodies(method)) : method \in ApiMethods} :
       ApiFetchSettles(f)
  \/ RetrySleepOver

InitSpecApi ==
  /\ rt = Idle /\ reqs = Null /\ calls = <<>>
  /\ cache = <<>> /\ now = 0 /\ lastOp = Null /\ shadow = Null
  /\ cleanupInterval = "set" /\ defaultTtl = DEFAULT_TTL

SpecApi == InitSpecApi /\ [][NextApi]_vars

\* The failures of a fetch the claim calls retryable: rate limited (429),
\* server unavailable (5xx), timeout (the fetch is aborted), network.
RetryableFetch(f) ==
  IF f.kind = "response" THEN f.status \in {429, 500, 502, 503, 504}
  ELSE f.error.cls = "AbortError" \/ f.error.msg \in {"ENOTFOUND", "ECONNREFUSED"}

\* The typed error of such a failure.
TypedErrorOf(f) ==
  IF f.kind = "response" /\ f.status = 429
  THEN RateLimitError(retryAfterSeconds(f.retryAfter))
  ELSE NetworkError

\* C13 (as stated): when every fetch of a call of checkPackageExists,
\* getPackageVersions, getPackageMetadata or searchPackages fails with a rate
\* limit, a 5xx status, a timeout or a network error, the call is retried
\* until the attempts are used up and then rejects with the typed error of
\* the last failure; it never resolves.
C13_RetryablePropagated ==
  (/\ reqs # Null
   /\ rt.pc = "done"
   /\ \A i \in 1..Len(calls) : RetryableFetch(calls[i]))
  => /\ Len(calls) = RETRY_ATTEMPTS + 1
     /\ rt.outcome.rejected
     /\ rt.outcome.value.cls = TypedErrorOf(calls[Len(calls)]).cls
     /\ rt.outcome.value.code = TypedErrorOf(calls[Len(calls)]).code

\* The same for the three methods other than checkPackageExists.
RetryablePropagatedByOthers ==
  (reqs # Null /\ reqs.method # "checkPackageExists") => C13_RetryablePropagated

\* A call whose four fetches all failed retryably rejected with the typed
\* error.
RetriesExhausted ==
  /\ reqs # Null /\ rt.pc = "done" /\ rt.outcome.rejected
  /\ Len(calls) = RETRY_ATTEMPTS + 1
  /\ \A i \in 1..Len(calls) : RetryableFetch(calls[i])

(***************************************************************************)
(* More claims about the tools (checked under Spec)                        *)
(***************************************************************************)

\* C14 (as stated): whatever a tool function throws is a
\* PackageReadmeMcpError (or one of its subclasses) carrying a code; no plain
\* Error and no other thrown value reaches the caller of the tool function.
C14_StructuredOutcomesOnly ==
  \A c \in Clients :
    (reqs[c].pc = "done" /\ reqs[c].result.rejected)
    => /\ IsMcpError(reqs[c].result.value)
       /\ reqs[c].result.value.code # ""

\* Other than getPackageInfo, the tools throw PackageReadmeMcpErrors only.
StructuredOutcomesOfOthers ==
  \A c \in Clients :
    (reqs[c].pc = "done" /\ reqs[c].result.rejected /\ reqs[c].tool # "get_package_info")
    => /\ IsMcpError(reqs[c].result.value)
       /\ reqs[c].result.value.code # ""

(***************************************************************************)
(* More claims about the cache (checked under SpecCache)                   *)
(***************************************************************************)

\* C15: an entry that a set removes to make room has the smallest timestamp
\* (time of its last write or last successful get) of all entries stored
\* when set was called; an entry is never evicted while an entry with a
\* strictly older timestamp is stored.  A set removes at most one entry.
C15_LruVictim ==
  [][lastOp'.op = "set" =>
       LET gone == KeysOf(cache) \ KeysOf(cache')
       IN  /\ Cardinality(gone) <= 1
           /\ \A j \in gone : \A i \in KeysOf(cache) :
                EntryOf(cache, j).timestamp <= EntryOf(cache, i).timestamp]_vars

\* C15 witness: a set has evicted the entry of another key, and the entry it
\* wrote is the only one left.
C15_Witness ==
  /\ lastOp.op = "set"
  /\ lastOp.ret.evicted # {}
  /\ lastOp.key \notin lastOp.ret.evicted
  /\ KeysOf(cache) = {lastOp.key}

(***************************************************************************)
(* SpecOversize: SpecCache with, in addition, sets of a value whose own    *)
(* estimated size exceeds maxSize.                                         *)
(***************************************************************************)

\* A value of estimated size 104 under either key.
Oversize == [v |-> <<"cccccccccccccccccccccccccccccc">>]

NextOversize ==
  \/ NextCache
  \/ \E k \in Keys : CacheSet(k, Oversize, 0)

SpecOversize == InitSpecCache /\ [][NextOversize]_vars

\* C16 (as stated): after set(k, v) with v's own estimated size above
\* maxSize the entry is stored, and every other entry has been evicted: the
\* cache holds exactly that one entry.
C16_OversizeEvictsAll ==
  (/\ lastOp.op = "set"
   /\ lastOp.key \in KeysOf(cache)
   /\ estimateEntrySize(lastOp.key, EntryOf(cache, lastOp.key).data) > MaxSize)
  => KeysOf(cache) = {lastOp.key}

\* An entry whose own estimated size exceeds maxSize is stored all the same.
OversizeInserted ==
  [][\A k \in Keys :
       (lastOp'.op = "set" /\ lastOp'.key = k /\ shadow'[k].data = Oversize)
       => /\ k \in KeysOf(cache')
          /\ EntryOf(cache', k).data = Oversize
          /\ estimateEntrySize(k, Oversize) > MaxSize]_vars

(***************************************************************************)
(* SpecLifecycle: the cache with destroy().  The cache stays usable after  *)
(* destroy; only the sweep is gone.                                        *)
(***************************************************************************)

\* Variant of destroy: the Map is emptied, the timer is left running.
destroyKeepsTimer(c, interval) == [cache |-> <<>>, cleanupInterval |-> interval]

\* MemoryCache.destroy(): clearInterval(this.cleanupInterval), cache.clear()
destroy(c, interval) == [cache |-> <<>>, cleanupInterval |-> "cleared"]

\* cache.destroy()
Destroy ==
  LET r == destroy(cache, cleanupInterval)
  IN  /\ cache' = r.cache
      /\ cleanupInterval' = r.cleanupInterval
      /\ shadow' = [k \in Keys |-> Null]
      /\ lastOp' = Op("destroy", "", Null)
      /\ UNCHANGED <<now, rt, reqs, calls, defaultTtl>>

NextLifecycle ==
  \/ \E k \in Keys, ttl \in Ttls : CacheSet(k, Small, ttl)
  \/ \E k \in Keys : CacheGet(k)
  \/ \E k \in Keys : CacheHas(k)
  \/ \E k \in Keys : CacheDelete(k)
  \/ CacheClear
  \/ CleanupTimer
  \/ Tick
  \/ Destroy

SpecLifecycle == InitSpecCache /\ [][NextLifecycle]_vars

\* C17: destroy() leaves the cache empty and the timer of the sweep cleared;
\* with the timer cleared the cleanup callback cannot run, and the timer is
\* never set again; a destroy() directly after a destroy() changes nothing.
C17_DestroyStopsSweep ==
  /\ [](cleanupInterval = "cleared" => ~ENABLED CleanupTimer)
  /\ [][/\ lastOp'.op = "destroy" => (Len(cache') = 0 /\ cleanupInterval' = "cleared")
        /\ cleanupInterval = "cleared" => cleanupInterval' = "cleared"
        /\ (lastOp.op = "destroy" /\ lastOp'.op = "destroy") =>
             UNCHANGED <<cache, cleanupInterval, defaultTtl, shadow, now>>]_vars

\* C17 witness: after destroy() an entry was stored and has expired, and no
\* sweep has removed it.
C17_Witness ==
  /\ cleanupInterval = "cleared"
  /\ \E i \in 1..Len(cache) : Expired(cache[i], now)

(***************************************************************************)
(* Claims about interleaved cache operations (checked under SpecCache,     *)
(* whose behaviours are the interleavings of the atomic methods)           *)
(***************************************************************************)

\* C18: under every interleaving of set, get, has, delete, clear and sweep,
\* the Map holds one entry per key, and each entry has the value and the ttl
\* of the most recent set of its key and the time of that set or of the last
\* successful get since as its timestamp; a get returns the value of the most
\* recent set of its key when it returns a value, and returns null only when
\* the key was never set, was deleted or evicted since, or has expired.
C18_VisibilityNoTornState ==
  /\ \A i, j \in 1..Len(cache) : cache[i].key = cache[j].key => i = j
  /\ \A i \in 1..Len(cache) :
       LET s == shadow[cache[i].key]
       IN  /\ s # Null
           /\ cache[i].data = s.data
           /\ cache[i].ttl = EffectiveTtl(s.arg)
           /\ cache[i].timestamp = s.at
           /\ s.setAt <= s.at
  /\ lastOp.op = "get" =>
       LET s == shadow[lastOp.key]
       IN  IF lastOp.ret # Null
           THEN s # Null /\ lastOp.ret = s.data
           ELSE s = Null \/ now - s.at > EffectiveTtl(s.arg)

\* C18 witness: with two keys stored under different values, a get that was
\* not the first read of its key since the key was set returned the value of
\* that set, some time after it.
C18_Witness ==
  /\ lastOp.op = "get"
  /\ lastOp.ret # Null
  /\ shadow[lastOp.key].reads = 2
  /\ shadow[lastOp.key].setAt < now
  /\ Len(cache) = 2
  /\ cache[1].data # cache[2].data

(***************************************************************************)
(* SpecConcurrent: two requests for the README of the same package, each   *)
(* made once, their awaits interleaved in every order.                     *)
(***************************************************************************)

TwoClients == {"c1", "c2"}

\* A client that has made no call yet calls getPackageReadme for the latest
\* version of the package.
ConcurrentCall(c) ==
  /\ reqs[c].pc = "idle"
  /\ GetPackageReadme(c, Pkg, Undefined)

InitConcurrent ==
  /\ cache = <<>>
  /\ cleanupInterval = "set"
  /\ defaultTtl = DEFAULT_TTL
  /\ now = 0
  /\ lastOp = NoOp
  /\ shadow = Null
  /\ rt = Null
  /\ reqs = [c \in TwoClients |-> NoRequest]
  /\ calls = [c \in TwoClients |-> <<>>]

NextConcurrent ==
  \/ \E c \in TwoClients : ConcurrentCall(c)
  \/ \E c \in TwoClients, o \in checkPackageExistsOutcomes : ReadmeExistsSettles(c, o)
  \/ \E c \in TwoClients, o \in getPackageMetadataLatest : ReadmeMetadataSettles(c, o)
  \/ \E c \in TwoClients, o \in getPackageReadmeOutcomes : NuGetReadmeSettles(c, o)
  \/ \E c \in TwoClients, o \in getEnhancedPackageMetadataOutcomes :
       EnhancedMetadataSettles(c, o)
  \/ \E c \in TwoClients, o \in getReadmeOutcomes \cup {Resolved(Undefined)} :
       GitHubReadmeSettles(c, o)

SpecConcurrent == InitConcurrent /\ [][NextConcurrent]_vars

\* The entries of the cache under the key.
EntriesUnder(key) == {i \in 1..Len(cache) : cache[i].key = key}

\* C19: there is no single-flight.  A call that missed the cache makes its
\* own capability calls whatever the other call does in the meantime, and
\* when it has built the response for an existing package it writes the
\* cache: directly after its set the cache holds exactly one entry under the
\* key, with that call's response, so that after two such calls the entry is
\* the response of the call whose set came last.
C19_NoSingleFlightLastWriteWins ==
  /\ [](\A c \in TwoClients :
          /\ Cardinality(EntriesUnder(reqs[c].cacheKey)) <= 1
          /\ (Built(c, "get_package_readme") /\ reqs[c].result.value.v.exists) =>
               /\ Len(calls[c]) >= 3
               /\ IsPrefix(calls[c], ReadmeStages)
               /\ Cardinality(EntriesUnder(reqs[c].cacheKey)) = 1)
  /\ [][\A c \in TwoClients :
          (/\ reqs[c].pc # "done"
           /\ reqs'[c].pc = "done"
           /\ ~reqs'[c].fromCache
           /\ ~reqs'[c].result.rejected
           /\ reqs'[c].result.value.v.exists)
          => /\ reqs'[c].cacheKey \in KeysOf(cache')
             /\ EntryOf(cache', reqs'[c].cacheKey).data = reqs'[c].result.value.v
             /\ EntryOf(cache', reqs'[c].cacheKey).timestamp = now]_vars

\* C19 witness: both calls missed the cache, both made their own capability
\* calls and built different responses, and the cache holds one entry: the
\* response of one of them, which is not the response of the other.
C19_Witness ==
  \E c, d \in TwoClients :
    /\ c # d
    /\ Built(c, "get_package_readme") /\ reqs[c].result.value.v.exists
    /\ Built(d, "get_package_readme") /\ reqs[d].result.value.v.exists
    /\ reqs[c].cacheKey = reqs[d].cacheKey
    /\ reqs[c].result # reqs[d].result
    /\ Len(calls[c]) >= 3 /\ Len(calls[d]) >= 3
    /\ Len(cache) = 1
    /\ cache[1].data = reqs[d].result.value.v

(***************************************************************************)
(* SpecConfigured: getPackageInfo and searchPackages over a cache whose    *)
(* default ttl is CACHE_CONFIG.DEFAULT_TTL, which is 3600000 or what the   *)
(* environment variable CACHE_TTL says.                                    *)
(***************************************************************************)

\* CACHE_TTL unset, and CACHE_TTL=300000.
ConfiguredTtls == {DEFAULT_TTL, 300000}

InitConfigured ==
  /\ cache = <<>>
  /\ cleanupInterval = "set"
  /\ defaultTtl \in ConfiguredTtls
  /\ now = 0
  /\ lastOp = NoOp
  /\ shadow = Null
  /\ rt = Null
  /\ reqs = [c \in Clients |-> NoRequest]
  /\ calls = [c \in Clients |-> <<>>]

NextConfigured ==
  \/ \E c \in Clients, package_name \in PackageNameArgs : GetPackageInfo(c, package_name)
  \/ \E c \in Clients, o \in checkPackageExistsOutcomes : InfoExistsSettles(c, o)
  \/ \E c \in Clients, o \in getPackageVersionsOutcomes : InfoVersionsSettles(c, o)
  \/ \E c \in Clients, o \in getPackageMetadataV100 : InfoMetadataSettles(c, o)
  \/ \E c \in Clients, o \in getAllDownloadStats : InfoStatsSettles(c, o)
  \/ \E c \in Clients, args \in SearchArgs :
       SearchPackages(c, args.query, args.limit, args.quality, args.popularity)
  \/ \E c \in Clients, o \in searchPackagesOutcomes : SearchSettles(c, o)

SpecConfigured == InitConfigured /\ [][NextConfigured]_vars

\* The cache keys of the searches the clients make.
SearchKeys ==
  {searchResultsKey(a.query, a.limit, a.quality.text, a.popularity.text) : a \in SearchArgs}

\* Every stored search response has a shorter ttl than every other stored
\* response.
SearchTtlShorter ==
  \A i, j \in 1..Len(cache) :
    (cache[i].key \in SearchKeys /\ cache[j].key \notin SearchKeys)
    => cache[i].ttl < cache[j].ttl

TimedOut(f) == f.kind = "error" /\ f.error.cls = "AbortError"

\* The server answered 500, 502, 503 or 504.
ServerSignaled(f) == f.kind = "response" /\ f.status \in {500, 502, 503, 504}

\* The connection could not be made.
ConnectionFailed(f) == f.kind = "error" /\ f.error.msg \in {"ENOTFOUND", "ECONNREFUSED"}

\* What a catch block can tell an error by: its class and its code.
KindOf(e) == [cls |-> e.cls, code |-> e.code]

\* C23 (as stated): the error withRetry catches, and the caller gets, for a
\* fetch that exceeded its deadline is of another kind than the error for a
\* fetch the server answered with a 5xx status or whose connection failed.
C23_TimeoutIsItsOwnKind ==
  reqs # Null =>
    \A i, j \in 1..Len(rt.thrown) :
      (TimedOut(calls[i]) /\ (ServerSignaled(calls[j]) \/ ConnectionFailed(calls[j])))
        => KindOf(rt.thrown[i]) # KindOf(rt.thrown[j])

\* What holds instead: a fetch that exceeded its deadline is caught by
\* withRetry as a NetworkError with the code NETWORK_ERROR, the error of a 5xx
\* status and of a failed connection, and is retried while attempts are left.
TimeoutIsNetworkError ==
  reqs # Null =>
    \A i \in 1..Len(rt.thrown) :
      TimedOut(calls[i]) =>
        /\ KindOf(rt.thrown[i]) = KindOf(NetworkError)
        /\ i <= RETRY_ATTEMPTS => Len(rt.delays) >= i

\* A call whose first fetch timed out and whose second was answered 500.
TimeoutThenServerError ==
  /\ reqs # Null
  /\ Len(rt.thrown) >= 2
  /\ TimedOut(calls[1]) /\ ServerSignaled(calls[2])

(***************************************************************************)
(* Rejections of fn that are no Error (SpecRetry)                          *)
(***************************************************************************)

\* withRetry has ended on an attempt on which fn threw a value that is no
\* Error.
EndedOnNonError ==
  /\ rt.pc = "done"
  /\ rt.thrown # <<>>
  /\ ~IsError(rt.thrown[Len(rt.thrown)])

\* C24 (as stated): whenever fn rejects with a value that is no Error, on
\* whichever attempt and for whichever maxRetries, withRetry rejects with an
\* Error that wraps the value, never with the value itself.
C24_NonErrorWrapped ==
  EndedOnNonError =>
    /\ rt.outcome.rejected
    /\ IsError(rt.outcome.value)
    /\ rt.outcome.value.wrapped

\* What holds instead: the value is wrapped when fn threw it on the last
\* attempt (attempt = maxRetries), and rethrown as it is on an earlier one.
NonErrorWrappedOnLastAttemptOnly ==
  EndedOnNonError =>
    /\ rt.outcome.rejected
    /\ rt.outcome.value.wrapped <=> rt.attempt = rt.maxRetries
    /\ IsError(rt.outcome.value) <=> rt.attempt = rt.maxRetries

\* fn threw a value that is no Error on the first of two attempts.
NonErrorOnEarlyAttempt ==
  EndedOnNonError /\ rt.maxRetries = 1 /\ rt.attempt = 0

\* fn threw a value that is no Error on the one attempt of maxRetries = 0.
NonErrorOnLastAttempt ==
  EndedOnNonError /\ rt.maxRetries = 0 /\ rt.outcome.value.wrapped

(***************************************************************************)
(* Eviction, validity, has and the sweep                                   *)
(***************************************************************************)

\* C27 (as stated): whenever set needs room for an entry and the cache is
\* not empty, exactly one entry is evicted, whatever the timestamps of the
\* stored entries are.  Stated for the sets of a key that is not stored: one
\* of the keys stored before is gone afterwards.
C27_EvictionMakesProgress ==
  [][(/\ lastOp'.op = "set"
      /\ cache # <<>>
      /\ lastOp'.key \notin KeysOf(cache)
      /\ wouldExceedMaxSize(cache, lastOp'.key, EntryOf(cache', lastOp'.key).data, MaxSize))
     => Cardinality(KeysOf(cache) \ KeysOf(cache')) = 1]_vars

\* What holds instead: such a set evicts one entry when an entry is older
\* than the current time, and none when every entry has the timestamp of the
\* current time.
EvictionNeedsAnOlderEntry ==
  [][(/\ lastOp'.op = "set"
      /\ cache # <<>>
      /\ lastOp'.key \notin KeysOf(cache)
      /\ wouldExceedMaxSize(cache, lastOp'.key, EntryOf(cache', lastOp'.key).data, MaxSize))
     => Cardinality(KeysOf(cache) \ KeysOf(cache')) =
          IF \E i \in 1..Len(cache) : cache[i].timestamp < now THEN 1 ELSE 0]_vars

\* A set that needed room has left the entry of the other key, written at the
\* same time, in the cache: the estimated size is above maxSize.
NothingEvicted ==
  /\ lastOp.op = "set"
  /\ lastOp.ret.evicted = {}
  /\ Len(cache) = 2
  /\ cache[1].timestamp = now /\ cache[2].timestamp = now
  /\ estimateMemoryUsage(cache) > MaxSize

(***************************************************************************)
(* SpecValidity: a MemoryCache under set, get, has, the sweep and the      *)
(* passing of time, lastOp noting has and the sweep as well.               *)
(***************************************************************************)

\* cache.has(k); lastOp notes the call and what it returned.
HasCall(k) ==
  LET r == cacheHas(cache, k, now)
  IN  /\ cache' = r.cache
      /\ lastOp' = Op("has", k, [v |-> r.ret])
      /\ UNCHANGED <<now, shadow, rt, cleanupInterval, defaultTtl, reqs, calls>>

\* The setInterval callback of the constructor: this.cleanup(); lastOp notes
\* the keys it removed.
Sweep ==
  /\ cleanupInterval = "set"
  /\ cache' = cleanup(cache, now)
  /\ lastOp' = Op("cleanup", "", [removed |-> KeysOf(cache) \ KeysOf(cache')])
  /\ UNCHANGED <<now, shadow, rt, cleanupInterval, defaultTtl, reqs, calls>>

NextValidity ==
  \/ \E k \in Keys, ttl \in Ttls : CacheSet(k, Small, ttl)
  \/ \E k \in Keys : CacheGet(k)
  \/ \E k \in Keys : HasCall(k)
  \/ Sweep
  \/ Tick

SpecValidity == InitSpecCache /\ [][NextValidity]_vars

\* The rule of the claims: an entry is valid at time t iff t - timestamp <= ttl.
ValidAt(entry, t) == t - entry.timestamp <= entry.ttl

\* C28: get, has and the sweep go by one rule.  A get of a stored key returns
\* the value iff the entry is valid, a has of it returns true iff the entry
\* is valid, and either removes the entry when it is not; a sweep keeps
\* exactly the valid entries.  So at every time get returns the value of an
\* entry iff has returns true iff a sweep keeps it.
C28_OneValidityRule ==
  [][/\ (lastOp'.op = "get" /\ lastOp'.key \in KeysOf(cache)) =>
          LET entry == EntryOf(cache, lastOp'.key)
          IN  /\ ValidAt(entry, now) => lastOp'.ret = entry.data
              /\ ~ValidAt(entry, now) =>
                   (lastOp'.ret = Null /\ lastOp'.key \notin KeysOf(cache'))
     /\ (lastOp'.op = "has" /\ lastOp'.key \in KeysOf(cache)) =>
          LET entry == EntryOf(cache, lastOp'.key)
          IN  /\ lastOp'.ret.v <=> ValidAt(entry, now)
              /\ ~ValidAt(entry, now) => lastOp'.key \notin KeysOf(cache')
     /\ lastOp'.op = "cleanup" =>
          \A i \in 1..Len(cache) :
            cache[i].key \in KeysOf(cache') <=> ValidAt(cache[i], now)]_vars

\* C28 witness: has has found an entry whose age is its ttl valid, and kept it.
C28_Witness ==
  /\ lastOp.op = "has"
  /\ lastOp.ret.v
  /\ lastOp.key \in KeysOf(cache)
  /\ now - EntryOf(cache, lastOp.key).timestamp = EntryOf(cache, lastOp.key).ttl

\* has has found an entry expired and removed it, the other entry staying.
HasRemovedExpired ==
  /\ lastOp.op = "has"
  /\ ~lastOp.ret.v
  /\ shadow[lastOp.key] # Null
  /\ lastOp.key \notin KeysOf(cache)
  /\ cache # <<>>

\* get has found an entry expired and removed it.
GetRemovedExpired ==
  /\ lastOp.op = "get"
  /\ lastOp.ret = Null
  /\ shadow[lastOp.key] # Null
  /\ lastOp.key \notin KeysOf(cache)

\* C29: a has of a key whose entry is valid returns true and leaves the Map
\* as it is: the value, the timestamp and the ttl of that entry, every other
\* entry and the order of the entries; a has of a key that is not stored
\* returns false and leaves the Map as it is.
C29_HasDoesNotRefresh ==
  [][lastOp'.op = "has" =>
       /\ (lastOp'.key \in KeysOf(cache) /\ ValidAt(EntryOf(cache, lastOp'.key), now))
            => (lastOp'.ret.v /\ cache' = cache)
       /\ lastOp'.key \notin KeysOf(cache) => (~lastOp'.ret.v /\ cache' = cache)]_vars

\* C29 witness: has has returned true for an entry written earlier, whose
\* timestamp is still the time of the write.
C29_Witness ==
  /\ lastOp.op = "has"
  /\ lastOp.ret.v
  /\ lastOp.key \in KeysOf(cache)
  /\ EntryOf(cache, lastOp.key).timestamp < now
  /\ EntryOf(cache, lastOp.key).timestamp = shadow[lastOp.key].at

\* has has returned false for a key that is not stored.
HasOfMissingKey ==
  /\ lastOp.op = "has"
  /\ ~lastOp.ret.v
  /\ shadow[lastOp.key] = Null
  /\ cache # <<>>

\* C30: after a sweep no entry with now - timestamp > ttl is stored, and every
\* entry that was valid before the sweep is stored as it was: its value, its
\* timestamp and its ttl.
C30_SweepRemovesExactlyExpired ==
  [][lastOp'.op = "cleanup" =>
       /\ \A j \in 1..Len(cache') : ~(now - cache'[j].timestamp > cache'[j].ttl)
       /\ \A i \in 1..Len(cache) :
            ValidAt(cache[i], now) => \E j \in 1..Len(cache') : cache'[j] = cache[i]]_vars

\* C30 witness: a sweep has removed one entry and kept the other.
C30_Witness ==
  /\ lastOp.op = "cleanup"
  /\ Cardinality(lastOp.ret.removed) = 1
  /\ Len(cache) = 1
  /\ cache[1].key \notin lastOp.ret.removed

(***************************************************************************)
(* SpecSweep: a MemoryCache that is written but never read, under the      *)
(* passing of time and the timer of the constructor.  In this              *)
(* specification cleanupInterval holds the time at which the timer fires   *)
(* next.                                                                   *)
(***************************************************************************)

\* The period of the timer (CACHE_CONFIG.CLEANUP_INTERVAL), in ticks, and
\* the last tick.
SweepInterval == 2
MaxSweepTime == 6

\* setInterval(callback, delay): the timer, due delay after the time t.
setInterval(t, delay) == [due |-> t + delay]

\* new MemoryCache(): the timer is set.
InitSpecSweep ==
  /\ cache = <<>> /\ now = 0 /\ lastOp = NoOp /\ shadow = [k \in Keys |-> Null]
  /\ defaultTtl = DefaultTtl
  /\ cleanupInterval = setInterval(0, SweepInterval)
  /\ rt = Null /\ reqs = Null /\ calls = <<>>

\* cache.set(k, v, ttl), early enough for the entry to expire and the timer
\* to fire after that before the last tick.
SweepSet(k, ttl) ==
  /\ now + (IF ttl = 0 THEN defaultTtl ELSE ttl) + SweepInterval + 1 <= MaxSweepTime
  /\ CacheSet(k, Small, ttl)

\* Time passes, up to the time the timer is due.
TimePasses ==
  /\ now < MaxSweepTime
  /\ now < cleanupInterval.due
  /\ now' = now + 1
  /\ lastOp' = NoOp
  /\ UNCHANGED <<cache, shadow, rt, cleanupInterval, defaultTtl, reqs, calls>>

\* The timer fires: this.cleanup(), and the timer is due again one period on.
TimerFires ==
  /\ now = cleanupInterval.due
  /\ cache' = cleanup(cache, now)
  /\ cleanupInterval' = setInterval(now, SweepInterval)
  /\ lastOp' = Op("cleanup", "", [removed |-> KeysOf(cache) \ KeysOf(cache')])
  /\ UNCHANGED <<now, shadow, rt, defaultTtl, reqs, calls>>

NextSweep ==
  \/ \E k \in Keys, ttl \in Ttls : SweepSet(k, ttl)
  \/ TimePasses
  \/ TimerFires

SpecSweep == InitSpecSweep /\ [][NextSweep]_vars

\* The timer keeps firing and time keeps passing.
SpecSweepFair == SpecSweep /\ WF_vars(TimePasses) /\ WF_vars(TimerFires)

\* C31: while the timer keeps firing, an entry that is not read and not
\* rewritten is eventually removed from the Map, by the sweep alone, and no
\* entry is stored longer than its ttl and one period of the timer after its
\* timestamp.
C31_StaleEventuallyPurged ==
  /\ \A k \in Keys : \A t \in 0..MaxSweepTime :
       (k \in KeysOf(cache) /\ EntryOf(cache, k).timestamp = t)
         ~> (k \notin KeysOf(cache) \/ EntryOf(cache, k).timestamp # t)
  /\ [](\A i \in 1..Len(cache) : now - cache[i].timestamp <= cache[i].ttl + SweepInterval)

\* C31 witness: the timer has removed an entry that was written once and
\* never read, within its ttl and one period after the write.
C31_Witness ==
  /\ lastOp.op = "cleanup"
  /\ \E k \in lastOp.ret.removed :
       /\ shadow[k] # Null
       /\ shadow[k].reads = 0
       /\ now > shadow[k].setAt + EffectiveTtl(shadow[k].arg)
       /\ now <= shadow[k].setAt + EffectiveTtl(shadow[k].arg) + SweepInterval

(***************************************************************************)
(* The delays of withRetry (SpecRetry)                                     *)
(***************************************************************************)

\* The errors withRetry retries.
Retried(e) ==
  \/ e.cls \in {"RateLimitError", "NetworkError"}
  \/ (IsMcpError(e) /\ e.statusCode >= 500)

\* withRetry waits only before another attempt: after an error it retries,
\* and not after the attempt maxRetries.
WaitsOnlyBeforeRetry ==
  /\ Len(rt.delays) <= rt.maxRetries
  /\ Len(rt.delays) <= Len(rt.thrown)
  /\ \A i \in 1..Len(rt.delays) : Retried(rt.thrown[i])
  /\ rt.pc = "done" /\ rt.outcome.rejected => Len(rt.delays) = Len(rt.thrown) - 1

ZeroRetryAfterBacksOff ==
  /\ rt.pc # "idle"
  /\ rt.baseDelay = 1
  /\ rt.delays = <<1>>
  /\ rt.thrown[1].cls = "RateLimitError"
  /\ rt.thrown[1].retryAfter = Number(0)

\* Statuses for which handleHttpError has no case of its own.
OtherStatuses == {400, 403, 501, 505}

\* The error handleHttpError throws for a status without a case of its own.
IsOtherStatusError(e) ==
  \E s \in OtherStatuses : [e EXCEPT !.n = 0] = handleHttpError(s, NoHeader)

\* C33 (as stated): when fn fails with the error handleHttpError throws for a
\* status other than 404, 429, 500, 502, 503 and 504, withRetry does not
\* retry: it ends there, rejected with that error, and when that was the
\* first attempt fn has been invoked exactly once.
C33_OtherStatusNotRetried ==
  rt.pc # "idle" =>
    \A i \in 1..Len(rt.thrown) :
      IsOtherStatusError(rt.thrown[i]) =>
        /\ i = Len(rt.thrown)
        /\ Len(rt.delays) < i
        /\ rt.pc = "done"
        /\ rt.outcome = [rejected |-> TRUE, value |-> rt.thrown[i]]
        /\ i = 1 => rt.invoked = 1

\* What holds instead: such an error ends withRetry at once when its status
\* is below 500, and is retried like a NetworkError, with its wait, when the
\* status is 500 or more and the attempt is not the last.
OtherStatusRetriedFrom500 ==
  rt.pc # "idle" =>
    \A i \in 1..Len(rt.thrown) :
      IsOtherStatusError(rt.thrown[i]) =>
        IF rt.thrown[i].statusCode < 500
        THEN /\ i = Len(rt.thrown)
             /\ Len(rt.delays) < i
             /\ rt.outcome = [rejected |-> TRUE, value |-> rt.thrown[i]]
        ELSE IF i - 1 < rt.maxRetries
        THEN /\ Len(rt.delays) >= i
             /\ rt.delays[i] = rt.baseDelay * Pow2(i - 1)
        ELSE rt.outcome.rejected /\ Len(rt.delays) = i - 1

\* The error of a 501 on the first attempt was followed by a second
\* invocation of fn.
OtherStatus501Retried ==
  /\ rt.pc # "idle"
  /\ rt.invoked >= 2
  /\ [rt.thrown[1] EXCEPT !.n = 0] = handleHttpError(501, NoHeader)

\* The error of a 400 on the first attempt ended withRetry.
OtherStatus400Ended ==
  /\ rt.pc = "done"
  /\ rt.maxRetries >= 1
  /\ rt.invoked = 1
  /\ rt.outcome.rejected
  /\ [rt.outcome.value EXCEPT !.n = 0] = handleHttpError(400, NoHeader)

(***************************************************************************)
(* SpecResolutionFair: the calls of SpecConcurrent, every awaited          *)
(* capability settling (each fetch is bounded by its timeout).             *)
(***************************************************************************)

\* c's tool function is at an await.
Pending(c) == reqs[c].pc \notin {"idle", "done"}

\* The capability c's tool function awaits settles.
Settles(c) ==
  \/ \E o \in checkPackageExistsOutcomes : ReadmeExistsSettles(c, o)
  \/ \E o \in getPackageMetadataLatest : ReadmeMetadataSettles(c, o)
  \/ \E o \in getPackageReadmeOutcomes : NuGetReadmeSettles(c, o)
  \/ \E o \in getEnhancedPackageMetadataOutcomes : EnhancedMetadataSettles(c, o)
  \/ \E o \in getReadmeOutcomes \cup {Resolved(Undefined)} : GitHubReadmeSettles(c, o)

\* Weak fairness of Settles(c), WF_vars(Settles(c)), with the enabling
\* condition written out: Settles(c) is enabled exactly when c's tool
\* function is at an await.
SettlesFairly(c) == []<>(~Pending(c)) \/ []<><<Settles(c)>>_vars

SpecResolutionFair == SpecConcurrent /\ \A c \in TwoClients : SettlesFairly(c)

\* The stages of the resolution, by the await the request is at: the NuGet
\* README (1), the enhanced metadata (2), the GitHub README (3); the
\* generated README (4) is made in the step that ends the request (5).
StageOf(pc) ==
  IF pc = "getPackageReadme" THEN 1
  ELSE IF pc = "getEnhancedPackageMetadata" THEN 2
  ELSE IF pc = "getReadmeFromRepository" THEN 3
  ELSE IF pc = "done" THEN 5
  ELSE 0

SourceTags == {"nuget", "nuget-enhanced", "github", "generated"}

\* c's request has reached the resolution: nugetApi.getPackageReadme was called.
InResolution(c) == Len(calls[c]) >= 3

\* C35: a request that has reached the resolution moves through its stages
\* forward only, its capability calls a prefix of the stage order with none
\* made twice; it comes to its end, resolved, with one of the sources nuget,
\* nuget-enhanced, github and generated; and the step that generates the
\* README calls no capability.
C35_ResolutionForwardAndFinishes ==
  /\ [][\A c \in TwoClients :
          (InResolution(c) /\ reqs'[c] # reqs[c]) =>
            /\ StageOf(reqs[c].pc) \in 1..3
            /\ StageOf(reqs'[c].pc) > StageOf(reqs[c].pc)
            /\ reqs'[c].readmeSource = "generated" =>
                 /\ calls'[c] = calls[c]
                 /\ reqs'[c].pc = "done"
                 /\ reqs'[c].readmeContent = createFallbackReadme(reqs[c].metadata)]_vars
  /\ [](\A c \in TwoClients :
          InResolution(c) =>
            /\ IsPrefix(calls[c], ReadmeStages)
            /\ StageOf(reqs[c].pc) \in {1, 2, 3, 5}
            /\ StageOf(reqs[c].pc) \in 1..3 =>
                 calls[c][Len(calls[c])] = reqs[c].pc
            /\ reqs[c].pc = "done" =>
                 /\ ~reqs[c].result.rejected
                 /\ reqs[c].readmeSource \in SourceTags)
  /\ \A c \in TwoClients :
       InResolution(c) ~>
         (/\ reqs[c].pc = "done"
          /\ ~reqs[c].result.rejected
          /\ reqs[c].readmeSource \in SourceTags)

\* C35 witness: a request went through the NuGet README, the enhanced
\* metadata and the GitHub README, and ended with the generated README.
C35_Witness ==
  \E c \in TwoClients :
    /\ calls[c] = ReadmeStages
    /\ reqs[c].pc = "done"
    /\ ~reqs[c].result.rejected
    /\ reqs[c].readmeSource = "generated"

\* A request ended at the first stage, with the README of the registry.
EndedWithNuGetReadme ==
  \E c \in TwoClients :
    /\ Len(calls[c]) = 3
    /\ reqs[c].pc = "done"
    /\ reqs[c].readmeSource = "nuget"

\* The fetch was aborted by the timer of the client.
Aborted(f) == f.kind = "error" /\ f.error.cls = "AbortError"

ExistenceCheckTimedOut ==
  /\ reqs # Null /\ reqs.method = "checkPackageExists"
  /\ rt.pc = "done"
  /\ rt.outcome.rejected
  /\ Len(calls) = RETRY_ATTEMPTS + 1

(***************************************************************************)
(* The cache and the tool calls that fail (checked under Spec)             *)
(***************************************************************************)

\* The step ends a call of c with a response the tool built for a package it
\* found, or for a search.
EndsBuilt(c) ==
  /\ reqs[c].pc # "done"
  /\ reqs'[c].pc = "done"
  /\ ~reqs'[c].fromCache
  /\ ~reqs'[c].result.rejected

\* The step ends a call of c with an error thrown.
EndsThrown(c) ==
  /\ reqs'[c] # reqs[c]
  /\ reqs'[c].pc = "done"
  /\ reqs'[c].result.rejected

\* C37: a key is added to the cache, or the value under a key changed, only
\* by the step that ends a call with the response it built; the step that
\* ends a call with an error thrown leaves every entry as it was, removing at
\* most, when it is also the step of the call's own lookup, the expired entry
\* under the call's key; and a validation error leaves the cache untouched.
C37_FailureLeavesCache ==
  [][/\ (\E k \in KeysOf(cache') :
           \/ k \notin KeysOf(cache)
           \/ EntryOf(cache', k).data # EntryOf(cache, k).data)
          => \E c \in Clients :
               /\ EndsBuilt(c)
               /\ reqs'[c].cacheKey \in KeysOf(cache')
               /\ EntryOf(cache', reqs'[c].cacheKey).data = reqs'[c].result.value.v
     /\ \A c \in Clients :
          EndsThrown(c) =>
            /\ KeysOf(cache') \subseteq KeysOf(cache)
            /\ \A k \in KeysOf(cache') : EntryOf(cache', k) = EntryOf(cache, k)
            /\ \A k \in KeysOf(cache) \ KeysOf(cache') :
                 /\ IsCall(c)
                 /\ k = reqs'[c].cacheKey
                 /\ Expired(EntryOf(cache, k), now)
            /\ (IsCall(c) /\ reqs'[c].cacheKey = "") => cache' = cache]_vars

\* C37 witness: the cache holds the response of an earlier call, and the
\* call after it has ended with an error of a capability it called.
C37_Witness ==
  \E c \in Clients :
    /\ reqs[c].n = 2
    /\ reqs[c].pc = "done"
    /\ reqs[c].result.rejected
    /\ Len(calls[c]) >= 1
    /\ Len(cache) >= 1

\* The cache holds the response of an earlier call, and the call after it
\* has ended with a validation error.
ThrownByValidation ==
  \E c \in Clients :
    /\ reqs[c].n = 2
    /\ reqs[c].pc = "done"
    /\ reqs[c].result.rejected
    /\ reqs[c].cacheKey = ""
    /\ Len(cache) >= 1

(***************************************************************************)
(* readmeParser.parseUsageExamples.  An example is held as its code and    *)
(* its language; title and description are left out.  A fence of three     *)
(* backquotes, with the language after it, is one piece, written with      *)
(* apostrophes.                                                             *)
(***************************************************************************)

MAX_EXAMPLES == 10

RECURSIVE SplitLines(_, _)
\* content.split('\n'), the line being read in line: the piece "\n\n" ends
\* the line and holds an empty line.
SplitLines(s, line) ==
  IF s = <<>> THEN <<line>>
  ELSE IF Head(s) = "\n" THEN <<line>> \o SplitLines(Tail(s), <<>>)
  ELSE IF Head(s) = "\n\n" THEN <<line, <<>>>> \o SplitLines(Tail(s), <<>>)
  ELSE SplitLines(Tail(s), Append(line, Head(s)))

\* The headers of level 2 the READMEs of the model have, each one piece.
SecondLevelHeaders == {"## Installation", "## Usage", "## Summary", "## Release Notes"}

\* (line.match(/^#+/) || [''])[0].length for a line /^#{1,6}\s/ matches, 0
\* for a line it does not match.
HeaderLevel(line) ==
  IF Len(line) >= 2 /\ line[1] = "#" /\ line[2] = " " THEN 1
  ELSE IF line # <<>> /\ line[1] \in SecondLevelHeaders THEN 2
  ELSE 0

\* isUsageHeader: the line is a header that names usage, examples, getting
\* started or installation, and nothing else.
isUsageHeader(line) == line \in {<<"## Installation">>, <<"## Usage">>}

RECURSIVE extractUsageSections(_, _, _, _)
\* extractUsageSections, from the line lines[1] on: the sections, each one
\* the sequence of its lines.
extractUsageSections(lines, currentSection, inUsageSection, sectionLevel) ==
  IF lines = <<>>
  THEN IF currentSection # <<>> THEN <<currentSection>> ELSE <<>>
  ELSE LET line == Head(lines)
           level == HeaderLevel(line)
           pushed == IF currentSection # <<>> THEN <<currentSection>> ELSE <<>>
       IN  IF level > 0 /\ isUsageHeader(line)
           THEN pushed \o extractUsageSections(Tail(lines), <<line>>, TRUE, level)
           ELSE IF level > 0 /\ inUsageSection /\ level <= sectionLevel
           THEN pushed \o extractUsageSections(Tail(lines), <<>>, FALSE, sectionLevel)
           ELSE IF inUsageSection
           THEN extractUsageSections(Tail(lines), Append(currentSection, line),
                                     inUsageSection, sectionLevel)
           ELSE extractUsageSections(Tail(lines), currentSection, inUsageSection,
                                     sectionLevel)

\* The pieces that hold a fence.
Fences == {"'''", "'''bash", "'''powershell", "'''csharp"}

\* The language of the fence: language = 'text' when none is written.
LanguageOf(fence) ==
  IF fence = "'''bash" THEN <<"bash">>
  ELSE IF fence = "'''powershell" THEN <<"powershell">>
  ELSE IF fence = "'''csharp" THEN <<"csharp">>
  ELSE <<"text">>

\* The first position of a fence in s, 0 when there is none.
IndexOfFence(s) ==
  IF \E i \in 1..Len(s) : s[i] \in Fences
  THEN CHOOSE i \in 1..Len(s) : s[i] \in Fences /\ \A j \in 1..(i - 1) : s[j] \notin Fences
  ELSE 0

RECURSIVE extractCodeBlocksFromSection(_)
\* extractCodeBlocksFromSection: the matches of /'''(\w+)?\n([\s\S]*?)'''/g in
\* the text s of the section, those with code after trimming.
extractCodeBlocksFromSection(s) ==
  LET i == IndexOfFence(s)
      rest == SubSeq(s, i + 1, Len(s))
      j == IndexOfFence(rest)
  IN  IF i = 0 \/ rest = <<>> THEN <<>>
      ELSE IF Head(rest) \notin LineBreaks
      THEN extractCodeBlocksFromSection(rest)
      ELSE IF j = 0 THEN <<>>
      ELSE LET cleanCode == Trim(SubSeq(rest, 1, j - 1))
               after == extractCodeBlocksFromSection(SubSeq(rest, j + 1, Len(rest)))
           IN  IF Length(cleanCode) = 0 THEN after
               ELSE <<[code |-> cleanCode, language |-> LanguageOf(s[i])]>> \o after

RECURSIVE deduplicateExamples(_, _)
\* deduplicateExamples: the first example of each code, seen being the codes
\* of the examples before.
deduplicateExamples(examples, seen) ==
  IF examples = <<>> THEN <<>>
  ELSE IF Join(Head(examples).code) \in seen
  THEN deduplicateExamples(Tail(examples), seen)
  ELSE <<Head(examples)>>
         \o deduplicateExamples(Tail(examples), seen \cup {Join(Head(examples).code)})

RECURSIVE ExamplesOfSections(_)
\* The code blocks of the sections, in order.
ExamplesOfSections(sections) ==
  IF sections = <<>> THEN <<>>
  ELSE extractCodeBlocksFromSection(JoinWith(Head(sections), <<"\n">>))
         \o ExamplesOfSections(Tail(sections))

\* Variant of parseUsageExamples: includeExamples is not looked at.
parseUsageExamplesAlways(readmeContent, includeExamples) ==
  IF ~Truthy(readmeContent) THEN <<>>
  ELSE LET sections == extractUsageSections(SplitLines(readmeContent, <<>>), <<>>, FALSE, 0)
           uniqueExamples == deduplicateExamples(ExamplesOfSections(sections), {})
       IN  SubSeq(uniqueExamples, 1,
                  IF Len(uniqueExamples) < MAX_EXAMPLES THEN Len(uniqueExamples)
                  ELSE MAX_EXAMPLES)

\* parseUsageExamples(readmeContent, includeExamples)
parseUsageExamples(readmeContent, includeExamples) ==
  IF ~includeExamples \/ ~Truthy(readmeContent) THEN <<>>
  ELSE LET sections == extractUsageSections(SplitLines(readmeContent, <<>>), <<>>, FALSE, 0)
           uniqueExamples == deduplicateExamples(ExamplesOfSections(sections), {})
       IN  SubSeq(uniqueExamples, 1,
                  IF Len(uniqueExamples) < MAX_EXAMPLES THEN Len(uniqueExamples)
                  ELSE MAX_EXAMPLES)

(***************************************************************************)
(* SpecParameters: getPackageReadme and getPackageInfo called one after    *)
(* the other with every combination of their optional parameters, over     *)
(* upstream data that stay as they are.  A call is one step: what its      *)
(* awaits come to is fixed by the upstream data.                           *)
(***************************************************************************)

MaxParameterCalls == 2

\* The nuspec metadata of the package, with the description given.
MetadataWith(description) ==
  [parseNuSpec(CHOOSE d \in NuSpecDocuments : Includes(d.projectUrl, "example.com"))
     EXCEPT !.description = description]

\* The README the registry serves for the package: none, one without a usage
\* section, one with a usage section that holds a code block.
UpstreamReadmes ==
  {Undefined,
   <<"#", " ", "Widget", "\n\n", "Use it.">>,
   <<"#", " ", "Widget", "\n\n", "## Usage", "\n\n", "'''csharp", "\n",
     "var w = new Widget();", "\n", "'''", "\n">>}

\* The upstream data: the nuspec, the README of the registry; no enhanced
\* metadata, and a project URL that is not of github.com.
Upstream(readme) ==
  [metadata |-> MetadataWith(<<"A widget">>), nugetReadme |-> readme,
   enhancedMetadata |-> Null]

\* What getPackageReadme builds when it misses the cache (lines 34-181).
readmeOnMiss(args, upstream) ==
  LET metadata == upstream.metadata
      fromNuGet == IF Truthy(upstream.nugetReadme) THEN upstream.nugetReadme ELSE <<>>
      fromEnhanced ==
        IF /\ needsEnhancedMetadata(fromNuGet)
           /\ enhancedReadmeUsable(metadata, upstream.enhancedMetadata)
        THEN createEnhancedFallbackReadme(metadata, upstream.enhancedMetadata.catalogEntry)
        ELSE fromNuGet
      readmeContent == IF ~Truthy(fromEnhanced) THEN createFallbackReadme(metadata)
                       ELSE fromEnhanced
      response == readmeResponse(args.package_name, metadata, readmeContent)
  IN  [package_name |-> response.package_name, version |-> response.version,
       description |-> response.description, readme_content |-> response.readme_content,
       usage_examples |-> parseUsageExamples(readmeContent, args.include_examples),
       repository |-> response.repository, exists |-> response.exists]

\* `include_dependencies && packageMetadata.package.metadata.dependencies`:
\* the dependencies of the response, {} being <<>>.
dependenciesOf(include_dependencies, metadata) ==
  IF include_dependencies /\ "dependencies" \in DOMAIN metadata
  THEN metadata.dependencies
  ELSE <<>>

\* What getPackageInfo builds when it misses the cache.
infoOnMiss(args, upstream) ==
  LET response == infoResponse(args.package_name, upstream.metadata.version,
                               upstream.metadata)
  IN  [package_name |-> response.package_name, latest_version |-> response.latest_version,
       description |-> response.description,
       dependencies |-> dependenciesOf(args.include_dependencies, upstream.metadata),
       dev_dependencies |-> Undefined,
       repository |-> response.repository, exists |-> response.exists]

\* The arguments of the calls.
ReadmeArgs ==
  [package_name : {Pkg}, version : {Latest, V100}, include_examples : BOOLEAN]
InfoArgs ==
  [package_name : {Pkg}, include_dependencies : BOOLEAN,
   include_dev_dependencies : BOOLEAN]

\* The tool function as a whole: the lookup, and on a miss the response
\* built and stored.  lastOp keeps the call before.
ParameterCall(tool, args, cacheKey, onMiss) ==
  LET cached == cacheGet(cache, cacheKey, now)
      hit == cached.ret # Null
  IN  /\ Len(calls) < MaxParameterCalls
      /\ cache' = IF hit THEN cached.cache
                  ELSE cacheSet(cached.cache, cacheKey, onMiss, 0, now, defaultTtl, MAX_SIZE)
      /\ reqs' = [tool |-> tool, args |-> args, cacheKey |-> cacheKey, fromCache |-> hit,
                  response |-> IF hit THEN cached.ret ELSE onMiss]
      /\ calls' = Append(calls, tool)
      /\ lastOp' = reqs
      /\ UNCHANGED <<now, shadow, rt, cleanupInterval, defaultTtl>>

\* getPackageReadme({package_name, version, include_examples})
ParameterReadme(args) ==
  ParameterCall("get_package_readme", args,
                packageReadmeKey(args.package_name, args.version),
                readmeOnMiss(args, shadow))

\* getPackageInfo({package_name, include_dependencies, include_dev_dependencies})
ParameterInfo(args) ==
  ParameterCall("get_package_info", args, packageInfoKey(args.package_name, Latest),
                infoOnMiss(args, shadow))

InitParameters ==
  /\ shadow \in {Upstream(readme) : readme \in UpstreamReadmes}
  /\ cache = <<>> /\ now = 0 /\ rt = Null
  /\ lastOp = [tool |-> "none", fromCache |-> FALSE]
  /\ reqs = [tool |-> "none", fromCache |-> FALSE]
  /\ calls = <<>>
  /\ cleanupInterval = "set" /\ defaultTtl = DEFAULT_TTL

NextParameters ==
  \/ \E args \in ReadmeArgs : ParameterReadme(args)
  \/ \E args \in InfoArgs : ParameterInfo(args)

SpecParameters == InitParameters /\ [][NextParameters]_vars

\* What the tool would build for the arguments on a miss.
OnMiss(tool, args) ==
  IF tool = "get_package_readme" THEN readmeOnMiss(args, shadow)
  ELSE infoOnMiss(args, shadow)

\* C38 (as stated): the response a tool returns from the cache is the
\* response a miss would build for the same arguments, whatever the
\* arguments, include_examples, include_dependencies and
\* include_dev_dependencies among them; and two calls whose responses on a
\* miss differ have different cache keys.
C38_CacheHitAnswersRequest ==
  /\ reqs.fromCache => reqs.response = OnMiss(reqs.tool, reqs.args)
  /\ (lastOp.tool # "none" /\ OnMiss(lastOp.tool, lastOp.args) # OnMiss(reqs.tool, reqs.args))
       => lastOp.cacheKey # reqs.cacheKey

\* What holds instead: a hit of getPackageInfo is the response of a miss;
\* a hit of getPackageReadme is the response of a miss but for
\* usage_examples, which are those of the call that stored the entry.
HitAnswersButForExamples ==
  reqs.fromCache =>
    /\ reqs.tool = "get_package_info" => reqs.response = infoOnMiss(reqs.args, shadow)
    /\ reqs.tool = "get_package_readme" =>
         LET computed == readmeOnMiss(reqs.args, shadow)
             withExamples == readmeOnMiss([reqs.args EXCEPT !.include_examples = TRUE], shadow)
         IN  /\ [reqs.response EXCEPT !.usage_examples = <<>>]
                  = [computed EXCEPT !.usage_examples = <<>>]
             /\ reqs.response.usage_examples \in {<<>>, withExamples.usage_examples}

\* getPackageReadme with include_examples true was answered from the cache
\* with a response without examples, which a call with include_examples
\* false had stored, for a README that has an example.
HitWithoutExamples ==
  /\ reqs.tool = "get_package_readme"
  /\ reqs.fromCache
  /\ reqs.args.include_examples
  /\ reqs.response.usage_examples = <<>>
  /\ readmeOnMiss(reqs.args, shadow).usage_examples # <<>>

\* The generated README has the examples of its installation section.
GeneratedReadmeHasExamples ==
  /\ shadow.nugetReadme = Undefined
  /\ reqs.tool = "get_package_readme"
  /\ ~reqs.fromCache
  /\ Len(reqs.response.usage_examples) = 2
  /\ reqs.response.usage_examples[1].language = <<"bash">>

(***************************************************************************)
(* Overwriting a stored key, under SpecCache.                              *)
(***************************************************************************)

\* The step is set(k, v') for a key k the Map holds already.
Overwrites == lastOp'.op = "set" /\ lastOp'.key \in KeysOf(cache)

\* The estimated size of the Map with the old entry of key replaced by one
\* that holds data is within maxSize.
FitsReplaced(c, key, data, maxSize) ==
  estimateMemoryUsage(c) - estimateEntrySize(key, EntryOf(c, key).data)
    + estimateEntrySize(key, data) <= maxSize

\* C39 (as stated): when set(k, v') overwrites a stored key and the contents
\* with k's old entry replaced by the new one fit within maxSize, no other
\* entry is removed, the number of entries is unchanged, and k afterwards
\* holds v' with the timestamp of the call and the new ttl.
C39_OverwriteDoesNotEvict ==
  [][(/\ Overwrites
      /\ FitsReplaced(cache, lastOp'.key, shadow'[lastOp'.key].data, MaxSize))
     => LET k == lastOp'.key
        IN  /\ \A j \in KeysOf(cache) \ {k} :
                 j \in KeysOf(cache') /\ EntryOf(cache', j) = EntryOf(cache, j)
            /\ Len(cache') = Len(cache)
            /\ EntryOf(cache', k) =
                 [key |-> k, data |-> shadow'[k].data, timestamp |-> now,
                  ttl |-> EffectiveTtl(shadow'[k].arg)]]_vars

\* What holds instead: an overwrite always leaves k with v', the timestamp
\* of the call and the new ttl; it removes no other entry when the size of
\* the Map, the old entry of k counted, and the size of the new entry
\* together are within maxSize, and otherwise removes the entry the
\* eviction picks, which may be another one.
OverwriteEvictsOnDoubleCount ==
  [][Overwrites
     => LET k == lastOp'.key
            oldest == OldestKey(cache, now)
            evicts == /\ wouldExceedMaxSize(cache, k, shadow'[k].data, MaxSize)
                      /\ oldest # Null
                      /\ oldest.key # k
        IN  /\ KeysOf(cache) \ KeysOf(cache') = IF evicts THEN {oldest.key} ELSE {}
            /\ \A j \in KeysOf(cache') \ {k} : EntryOf(cache', j) = EntryOf(cache, j)
            /\ EntryOf(cache', k) =
                 [key |-> k, data |-> shadow'[k].data, timestamp |-> now,
                  ttl |-> EffectiveTtl(shadow'[k].arg)]]_vars

(***************************************************************************)
(* SpecFunctions: the functions of the server that keep no state, each     *)
(* applied to arguments from bounded sets.  reqs is the call to be made:   *)
(* the function and its arguments; lastOp is the call once made: the       *)
(* function, its arguments and what it returned or threw.                  *)
(***************************************************************************)

FunctionCall(name, args) == [fn |-> name, args |-> args]
Applied(name, args, ret) == [op |-> name, args |-> args, ret |-> ret]

\* The number of packages a search result has at most.
MaxHits == 3

\* The download counts of the packages of a search result.
Downloads == {0, 10, 50, 100}

\* A score as a template literal writes it.
ScoreText(tenths) ==
  IF tenths = 0 THEN <<"0">>
  ELSE IF tenths = 10 THEN <<"1">>
  ELSE <<"0", ".", <<"1", "2", "3", "4", "5", "6", "7", "8", "9">>[tenths]>>

\* quality and popularity: undefined, or 0, 0.1, ..., 1
ScoreArgs == {NoScore} \cup {Score(t, ScoreText(t)) : t \in 0..10}

\* Search results of n packages, named by their place; a package is
\* verified or has no mark of quality at all.
SearchData(n) ==
  {[i \in 1..n |-> SearchHit(<<ToString(i)>>, <<>>, h[i].downloads, h[i].verified, <<>>)] :
     h \in [1..n -> [downloads : Downloads, verified : BOOLEAN]]}

\* The searches: quality unset or 0.5, every popularity, every result of up
\* to maxHits packages.
SearchResponseCalls(maxHits) ==
  {FunctionCall("searchResponse", [quality |-> quality, popularity |-> popularity,
                                   data |-> data]) :
     quality \in {NoScore, Score(5, ScoreText(5))}, popularity \in ScoreArgs,
     data \in UNION {SearchData(n) : n \in 0..maxHits}}

\* searchPackages, from the search result on: the response it builds.
ApplySearchResponse ==
  /\ reqs.fn = "searchResponse" /\ lastOp.op = "other"
  /\ lastOp' = Applied("searchResponse", reqs.args,
                       searchResponse(<<"q">>, reqs.args.quality, reqs.args.popularity,
                                      reqs.args.data))
  /\ UNCHANGED <<cache, now, shadow, rt, reqs, calls, cleanupInterval, defaultTtl>>

\* The places, in the search result, of the packages that pass the quality
\* filter.
AfterQuality(args) ==
  {i \in 1..Len(args.data) :
     args.quality.text = Undefined \/ qualityScore(args.data[i]) >= args.quality.tenths}

\* The largest download count among them, and at least 1.
MostDownloads(args) ==
  LET ds == {args.data[i].totalDownloads : i \in AfterQuality(args)} \cup {1}
  IN  CHOOSE d \in ds : \A e \in ds : e <= d

\* C21: of the packages left by the quality filter, searchPackages keeps all
\* when popularity is unset, and otherwise those with totalDownloads /
\* max(totalDownloads of the packages left, 1) >= popularity; it returns the
\* kept packages by descending totalDownloads, and total_count is their number.
C21_SearchFilterAndOrder ==
  lastOp.op = "searchResponse" =>
    LET args == lastOp.args
        response == lastOp.ret
        kept == {i \in AfterQuality(args) :
                   \/ args.popularity.text = Undefined
                   \/ args.data[i].totalDownloads * 10
                        >= args.popularity.tenths * MostDownloads(args)}
        packages == response.packages
    IN  /\ response.total_count = Cardinality(kept)
        /\ Len(packages) = Cardinality(kept)
        /\ {packages[i].name : i \in 1..Len(packages)} = {args.data[i].id : i \in kept}
        /\ \A i \in 1..Len(packages) : \E j \in kept :
             /\ packages[i].name = args.data[j].id
             /\ packages[i].totalDownloads = args.data[j].totalDownloads
        /\ \A i, j \in 1..Len(packages) :
             i < j => packages[i].totalDownloads >= packages[j].totalDownloads

\* C21 witness: of three packages with 100, 50 and 10 downloads, popularity
\* 0.6 kept the first only.
C21_Witness ==
  /\ lastOp.op = "searchResponse"
  /\ Len(lastOp.args.data) = 3
  /\ [i \in 1..3 |-> lastOp.args.data[i].totalDownloads] = <<100, 50, 10>>
  /\ lastOp.args.quality = NoScore
  /\ lastOp.args.popularity.tenths = 6
  /\ lastOp.ret.total_count = 1
  /\ lastOp.ret.packages[1].totalDownloads = 100

\* With popularity unset the three packages came back, the most downloaded
\* first.
SearchUnfiltered ==
  /\ lastOp.op = "searchResponse"
  /\ Len(lastOp.args.data) = 3
  /\ [i \in 1..3 |-> lastOp.args.data[i].totalDownloads] = <<10, 100, 50>>
  /\ lastOp.args.quality = NoScore /\ lastOp.args.popularity = NoScore
  /\ [i \in 1..3 |-> lastOp.ret.packages[i].totalDownloads] = <<100, 50, 10>>

(***************************************************************************)
(* handleHttpError                                                         *)
(***************************************************************************)

HttpStatuses == {301, 400, 401, 403, 404, 418, 429, 500, 501, 502, 503, 504, 505}

\* Retry-After headers that give a number of seconds, with that number.
RetryAfterNumerals ==
  {<<<<"0">>, 0>>, <<<<"2">>, 2>>, <<<<"6", "0">>, 60>>, <<<<"1", "2", "0">>, 120>>}

\* The Retry-After headers of the responses: none, empty, a number of
\* seconds, a number followed by a unit, the start of an HTTP date.
RetryAfterHeaders ==
  {NoHeader, <<>>, <<"7", "s">>, <<"W", "e", "d">>} \cup {h[1] : h \in RetryAfterNumerals}

StatusTexts == {<<>>, <<"Server Error">>}
Contexts == {<<"package lookup">>, <<"API request">>}

HandleHttpErrorCalls ==
  {FunctionCall("handleHttpError",
                [status |-> status,
                 response |-> [statusText |-> statusText, retryAfter |-> retryAfter],
                 context |-> context]) :
     status \in HttpStatuses, statusText \in StatusTexts,
     retryAfter \in RetryAfterHeaders, context \in Contexts}

\* handleHttpError(status, response, context): it throws on every path.
ApplyHandleHttpError ==
  /\ reqs.fn = "handleHttpError" /\ lastOp.op = "other"
  /\ lastOp' = Applied("handleHttpError", reqs.args,
                       Rejected(handleHttpError(reqs.args.status,
                                                reqs.args.response.retryAfter)))
  /\ UNCHANGED <<cache, now, shadow, rt, reqs, calls, cleanupInterval, defaultTtl>>

\* C22: handleHttpError always throws: a PackageNotFoundError for 404, a
\* RateLimitError for 429, carrying the seconds the retry-after header gives
\* when the response has one and no retryAfter when it has none, a
\* NetworkError for 500, 502, 503 and 504, and for every other status a
\* PackageReadmeMcpError with the code HTTP_ERROR and the status as its
\* statusCode; the kind is fixed by the status, whatever the status text and
\* the context.
C22_HttpStatusClassification ==
  lastOp.op = "handleHttpError" =>
    LET status == lastOp.args.status
        header == lastOp.args.response.retryAfter
        error == lastOp.ret.value
    IN  /\ lastOp.ret.rejected
        /\ status = 404 => error.cls = "PackageNotFoundError"
        /\ status = 429 =>
             /\ error.cls = "RateLimitError"
             /\ header = NoHeader => error.retryAfter = NoNumber
             /\ \A h \in RetryAfterNumerals :
                  header = h[1] => error.retryAfter = Number(h[2])
        /\ status \in {500, 502, 503, 504} => error.cls = "NetworkError"
        /\ status \notin {404, 429, 500, 502, 503, 504} =>
             /\ error.cls = "PackageReadmeMcpError"
             /\ error.code = "HTTP_ERROR"
             /\ error.statusCode = status

\* C22 witness: a 429 with the header retry-after: 60 threw a RateLimitError
\* whose retryAfter is 60.
C22_Witness ==
  /\ lastOp.op = "handleHttpError"
  /\ lastOp.args.status = 429
  /\ lastOp.args.response.retryAfter = <<"6", "0">>
  /\ lastOp.ret.rejected
  /\ lastOp.ret.value.cls = "RateLimitError"
  /\ lastOp.ret.value.retryAfter = Number(60)

\* A 501 threw a PackageReadmeMcpError with the code HTTP_ERROR.
HttpErrorOf501 ==
  /\ lastOp.op = "handleHttpError"
  /\ lastOp.args.status = 501
  /\ lastOp.ret.value = McpError("HTTP_ERROR", 501)

\* A retry-after header that is no number of seconds left NaN in the error.
RetryAfterNaN ==
  /\ lastOp.op = "handleHttpError"
  /\ lastOp.args.status = 429
  /\ lastOp.ret.value.retryAfter = NaN

(***************************************************************************)
(* createCacheKey                                                          *)
(***************************************************************************)

\* Search queries, held character by character: plain ones, ones that hold
\* ':' and read like the rest of another request's key, and one that is the
\* base64 text of another.
KeyQueries ==
  {<<"a">>, <<"j", "s", "o", "n">>, <<"a", ":", "2", "0">>,
   <<"a", ":", "2", "0", ":", "p">>, <<"a", ":", "q", ":", "0", ".", "5">>,
   <<"Y", "Q", "=", "=">>}

KeyLimits == {1, 20}

\* Package names and versions, each with the text it stands for.
KeyNames == {<<<<"P", "k", "g">>, "Pkg">>, <<<<"a">>, "a">>}
KeyVersions == {<<<<"l", "a", "t", "e", "s", "t">>, "latest">>, <<<<"1", ".", "0">>, "1.0">>}

\* The requests for a key.
KeyRequests ==
  {[kind |-> "searchResults", query |-> query, limit |-> limit, quality |-> quality,
    popularity |-> popularity] :
     query \in KeyQueries, limit \in KeyLimits,
     quality \in {NoScore, Score(5, ScoreText(5))},
     popularity \in {NoScore, Score(5, ScoreText(5)), Score(10, ScoreText(10))}}
  \cup {[kind |-> kind, packageName |-> name[1], version |-> version[1]] :
          kind \in {"packageReadme", "packageInfo"}, name \in KeyNames,
          version \in KeyVersions}

\* createCacheKey.searchResults, .packageReadme and .packageInfo
createCacheKey(request) ==
  IF request.kind = "searchResults"
  THEN searchResultsKey(request.query, request.limit, request.quality.text,
                        request.popularity.text)
  ELSE IF request.kind = "packageReadme"
  THEN packageReadmeKey(request.packageName, request.version)
  ELSE packageInfoKey(request.packageName, request.version)

CreateCacheKeyCalls ==
  {FunctionCall("createCacheKey", [first |-> first, second |-> second]) :
     first \in KeyRequests, second \in KeyRequests}

\* The keys of two requests are made.
ApplyCreateCacheKey ==
  /\ reqs.fn = "createCacheKey" /\ lastOp.op = "other"
  /\ lastOp' = Applied("createCacheKey", reqs.args,
                       <<createCacheKey(reqs.args.first), createCacheKey(reqs.args.second)>>)
  /\ UNCHANGED <<cache, now, shadow, rt, reqs, calls, cleanupInterval, defaultTtl>>

\* C25: the same request gets the same key; two search requests get the
\* same key exactly when their query, limit, quality and popularity are the
\* same; the key of a README is pkg_readme:<name>:<version>, the key of a
\* package's info pkg_info:<name>:<version>, and neither is ever the key of
\* a search.
C25_CacheKeysCollisionFree ==
  lastOp.op = "createCacheKey" =>
    LET first == lastOp.args.first
        second == lastOp.args.second
        keys == lastOp.ret
    IN  /\ first = second => keys[1] = keys[2]
        /\ (first.kind = "searchResults" /\ second.kind = "searchResults")
             => (keys[1] = keys[2] <=> first = second)
        /\ \A name \in KeyNames, version \in KeyVersions :
             (first.kind # "searchResults" /\ first.packageName = name[1]
                /\ first.version = version[1])
               => keys[1] = (IF first.kind = "packageReadme" THEN "pkg_readme:"
                             ELSE "pkg_info:") \o name[2] \o ":" \o version[2]
        /\ (first.kind # "searchResults" /\ second.kind = "searchResults")
             => keys[1] # keys[2]

\* C25 witness: the query a:20:p with limit 1, and the query a with limit 20
\* and popularity 1, got two keys.
C25_Witness ==
  /\ lastOp.op = "createCacheKey"
  /\ lastOp.args.first.kind = "searchResults" /\ lastOp.args.second.kind = "searchResults"
  /\ lastOp.args.first.query = <<"a", ":", "2", "0", ":", "p">>
  /\ lastOp.args.first.limit = 1 /\ lastOp.args.first.popularity = NoScore
  /\ lastOp.args.first.quality = NoScore /\ lastOp.args.second.quality = NoScore
  /\ lastOp.args.second.query = <<"a">>
  /\ lastOp.args.second.limit = 20 /\ lastOp.args.second.popularity.tenths = 10
  /\ lastOp.ret[1] # lastOp.ret[2]

\* The key of the search for json with limit 20, quality 0.5 and popularity 1.
SearchKeyOfJson ==
  /\ lastOp.op = "createCacheKey"
  /\ lastOp.args.first.kind = "searchResults"
  /\ lastOp.args.first.query = <<"j", "s", "o", "n">>
  /\ lastOp.ret[1] = "search:anNvbg==:20:q:0.5:p:1"

\* The key of the README of Pkg, version 1.0.
ReadmeKeyOfPkg ==
  /\ lastOp.op = "createCacheKey"
  /\ lastOp.ret[1] = "pkg_readme:Pkg:1.0"

(***************************************************************************)
(* parseRepositoryUrl                                                      *)
(***************************************************************************)

\* The start of a URL of another host.
OtherHostPrefixes ==
  {<<"https://", "gitlab.com", "/">>, <<"https://", "bitbucket.org", "/">>}

\* Owners and repositories; <<>>: the URL has none.
UrlOwners == {<<"microsoft">>, <<>>}
UrlRepos == {<<"dotnet">>, <<>>}

\* What follows the repository: nothing or ".git", then nothing, "/" or a path.
UrlSuffixes == {<<>>, <<".git">>}
UrlPaths == {<<>>, <<"/">>, <<"/", "tree", "/", "main">>}

\* The URLs made of a prefix, an owner and a repository, each with these
\* parts.  A URL without a repository ends where the repository would be; a
\* URL with neither owner nor repository ends after the prefix.
UrlsOf(prefix, owner, repo) ==
  {[url |-> prefix \o owner \o (IF owner = <<>> /\ repo = <<>> THEN <<>> ELSE <<"/">>)
              \o repo \o suffix \o path,
    prefix |-> prefix, owner |-> owner, repo |-> repo] :
     suffix \in IF repo = <<>> THEN {<<>>} ELSE UrlSuffixes,
     path \in IF repo = <<>> THEN {<<>>} ELSE UrlPaths}

\* The URLs: those, the URLs that end after the owner, and texts that are no
\* URL.
RepositoryUrls ==
  UNION {UrlsOf(prefix, owner, repo) :
           prefix \in RepositoryUrlPrefixes \cup OtherHostPrefixes,
           owner \in UrlOwners, repo \in UrlRepos}
  \cup {[url |-> prefix \o <<"microsoft">>, prefix |-> prefix,
         owner |-> <<"microsoft">>, repo |-> <<>>] : prefix \in RepositoryUrlPrefixes}
  \cup {[url |-> text, prefix |-> <<>>, owner |-> <<>>, repo |-> <<>>] :
          text \in {<<"not-a-url">>, <<>>}}

ParseRepositoryUrlCalls ==
  {FunctionCall("parseRepositoryUrl", parts) : parts \in RepositoryUrls}

\* parseRepositoryUrl(repositoryUrl)
ApplyParseRepositoryUrl ==
  /\ reqs.fn = "parseRepositoryUrl" /\ lastOp.op = "other"
  /\ lastOp' = Applied("parseRepositoryUrl", reqs.args,
                       parseRepositoryUrl(reqs.args.url))
  /\ UNCHANGED <<cache, now, shadow, rt, reqs, calls, cleanupInterval, defaultTtl>>

\* C26: for a URL of github.com in one of the forms https://, git+https://,
\* git:// and git@github.com:, with an owner and a repository, with or
\* without .git and a path after it, parseRepositoryUrl returns that owner
\* and that repository; for a URL of another host, a URL without an owner or
\* without a repository, and a text that is no URL, it returns null.
C26_RepositoryUrlParsing ==
  lastOp.op = "parseRepositoryUrl" =>
    LET parts == lastOp.args
    IN  IF /\ parts.prefix \in RepositoryUrlPrefixes
           /\ parts.owner # <<>> /\ parts.repo # <<>>
        THEN lastOp.ret = [owner |-> parts.owner, repo |-> parts.repo]
        ELSE lastOp.ret = Null

\* C26 witness: git+https://github.com/microsoft/dotnet.git/tree/main gave
\* microsoft and dotnet.
C26_Witness ==
  /\ lastOp.op = "parseRepositoryUrl"
  /\ lastOp.args.url = <<"git+https://", "github.com", "/", "microsoft", "/", "dotnet",
                         ".git", "/", "tree", "/", "main">>
  /\ lastOp.ret = [owner |-> <<"microsoft">>, repo |-> <<"dotnet">>]

\* git@github.com:microsoft/dotnet.git gave microsoft and dotnet.
SshUrlParsed ==
  /\ lastOp.op = "parseRepositoryUrl"
  /\ lastOp.args.url = <<"git@", "github.com", ":", "microsoft", "/", "dotnet", ".git">>
  /\ lastOp.ret = [owner |-> <<"microsoft">>, repo |-> <<"dotnet">>]

\* https://github.com/microsoft gave null.
UrlWithoutRepo ==
  /\ lastOp.op = "parseRepositoryUrl"
  /\ lastOp.args.url = <<"https://", "github.com", "/", "microsoft">>
  /\ lastOp.ret = Null

(***************************************************************************)
(* SpecFunctions: the enhanced-metadata stage of getPackageReadme          *)
(***************************************************************************)

\* The descriptions of a nuspec: none (parsed as ''), one of 8 characters.
NuSpecDescriptions == {<<>>, <<"A widget">>}

\* The descriptions of a catalog entry: none, empty, shorter than the
\* nuspec's, as long, longer.
CatalogDescriptions ==
  {Undefined, <<>>, <<"A kit">>, <<"A gadget">>, <<"A widget for every purpose">>}

\* What getEnhancedPackageMetadata resolves with: null, a document without a
\* catalog entry, a document with one.
EnhancedMetadataValues ==
  {Null, [catalogEntry |-> Null]}
    \cup {[catalogEntry |-> [description |-> d, summary |-> Undefined,
                             releaseNotes |-> Undefined]] : d \in CatalogDescriptions}

EnhancedStageCalls ==
  {FunctionCall("enhancedStage",
                [nugetReadme |-> r, metadata |-> MetadataWith(d), enhancedMetadata |-> e]) :
     r \in {Undefined, <<"#", " ", "Widget", "\n\n", "Use it.">>},
     d \in NuSpecDescriptions, e \in EnhancedMetadataValues}

\* getPackageReadme from the NuGet README to the end of the enhanced-metadata
\* stage: readmeContent and readmeSource after it.
ApplyEnhancedStage ==
  /\ reqs.fn = "enhancedStage" /\ lastOp.op = "other"
  /\ LET nugetReadme == reqs.args.nugetReadme
         readmeContent == IF Truthy(nugetReadme) THEN nugetReadme ELSE <<>>
         readmeSource == IF Truthy(nugetReadme) THEN "nuget" ELSE "none"
         enhancedMetadata == reqs.args.enhancedMetadata
     IN  lastOp' = Applied("enhancedStage", reqs.args,
           IF /\ needsEnhancedMetadata(readmeContent)
              /\ enhancedReadmeUsable(reqs.args.metadata, enhancedMetadata)
           THEN [readmeContent |->
                   createEnhancedFallbackReadme(reqs.args.metadata,
                                                enhancedMetadata.catalogEntry),
                 readmeSource |-> "nuget-enhanced"]
           ELSE [readmeContent |-> readmeContent, readmeSource |-> readmeSource])
  /\ UNCHANGED <<cache, now, shadow, rt, reqs, calls, cleanupInterval, defaultTtl>>

\* The description of the catalog entry of e, '' when e has none.
CatalogDescriptionOf(e) ==
  IF e = Null THEN <<>>
  ELSE IF e.catalogEntry = Null THEN <<>>
  ELSE IF e.catalogEntry.description = Undefined THEN <<>>
  ELSE e.catalogEntry.description

EqualLengthNotUsed ==
  /\ lastOp.op = "enhancedStage"
  /\ lastOp.args.nugetReadme = Undefined
  /\ Length(lastOp.args.metadata.description) = 8
  /\ Length(CatalogDescriptionOf(lastOp.args.enhancedMetadata)) = 8
  /\ lastOp.ret.readmeSource = "none"

(***************************************************************************)
(* SpecFunctions, assembled: one call of one function in each behaviour.    *)
(***************************************************************************)

InitFunctions ==
  /\ reqs \in SearchResponseCalls(MaxHits) \cup HandleHttpErrorCalls
                \cup CreateCacheKeyCalls \cup ParseRepositoryUrlCalls
                \cup EnhancedStageCalls
  /\ lastOp = NoOp
  /\ cache = <<>> /\ now = 0 /\ shadow = Null /\ rt = Null /\ calls = <<>>
  /\ cleanupInterval = "set" /\ defaultTtl = DEFAULT_TTL

NextFunctions ==
  \/ ApplySearchResponse
  \/ ApplyHandleHttpError
  \/ ApplyCreateCacheKey
  \/ ApplyParseRepositoryUrl
  \/ ApplyEnhancedStage

SpecFunctions == InitFunctions /\ [][NextFunctions]_vars

====
